---- MODULE Spec2Model ----
(***************************************************************************)
(* Model of the dispersion-and-exposure pipeline of FDM-SUMO:              *)
(*   - the diffusion/decay grid solver   (emission_models.process_gas_step)*)
(*   - the noise field model             (emission_models.process_noise)   *)
(*   - the snapshot statistics           (process_data.py)                 *)
(*   - the AQI / AQIH converter          (process_gas_to_aqi.py)           *)
(*   - the driver's timestep and triggers (run_sim.py)                     *)
(*                                                                         *)
(* Floating-point values are modelled as exact rationals <<num, den>>      *)
(* (den > 0, lowest terms).  IEEE rounding is not modelled.                *)
(***************************************************************************)
EXTENDS Integers, Sequences, FiniteSets, TLC

VARIABLES
    \* ---- diffusion solver (one pollutant field and the shared scratch buffer)
    gas_cfg,                \* the arguments the driver passes on every call
    old_matrix,             \* the 3D mass field [mg per cell]
    padded_concentration,   \* module-level preallocated padded array
    gas_call,               \* the emission samples of the last call
    gas_steps,              \* number of process_gas_step calls done
    cells_pending,          \* cells the update loop of the call in progress has still to update
    \* ---- noise model
    noise_cfg,              \* cell lengths, radius, background_dB
    noise_call,             \* the samples of the last process_noise call
    linear_matrix,          \* the accumulator of the last call (before log10)
    noise_ran,              \* whether process_noise has been called
    \* ---- snapshot statistics
    time_per_screenshot,    \* TIME_PER_SCREENSHOT of the run
    data_folder,            \* the snapshot files, in enumeration order
    stats_out,              \* what process_data_statistics wrote, per data key
    stats_done,             \* whether process_data_statistics has run
    \* ---- AQI converter
    aqi_call,               \* the arguments of the last scoring call
    aqi_result,             \* its result
    avg_data_folder,        \* the window-average files: <<pollutant, window, hour>> -> array
    final_results,          \* the index grids process_gas_to_aqi saved, by file name
    aqih_calls,             \* the <<pollutant, pollutant_type>> it scored with AQIH
    aqi_done,               \* whether process_gas_to_aqi has run
    \* ---- driver (run_sim.py)
    driver_cfg,             \* cell lengths, diffusion and loss-rate constants
    driver_dt,              \* dt
    pc,                     \* "setup", "loop", "ended", "aggregated" or "done"
    sim_time,               \* traci.simulation.getTime()
    curr_time,              \* curr_time of the last tick
    next_screenshot_time,
    next_noise_update,
    screenshots,            \* the identifiers (curr_time) of the save_all_data calls
    noise_updates,          \* the curr_time of the per-second noise updates
    tick_calls,             \* the calls of the last tick, in order
    noise_exposure          \* noise_exposure_low, _mid, _high, _very_high: seconds at or above each threshold

gasVars   == <<gas_cfg, old_matrix, padded_concentration, gas_call, gas_steps, cells_pending>>
noiseVars == <<noise_cfg, noise_call, linear_matrix, noise_ran>>
statsVars == <<time_per_screenshot, data_folder, stats_out, stats_done>>
aqiVars   == <<aqi_call, aqi_result, avg_data_folder, final_results, aqih_calls, aqi_done>>
driverVars == <<driver_cfg, driver_dt, pc, sim_time, curr_time, next_screenshot_time,
                next_noise_update, screenshots, noise_updates, tick_calls, noise_exposure>>
vars      == <<gasVars, noiseVars, statsVars, aqiVars, driverVars>>

-----------------------------------------------------------------------------
(* Bounds of the model *)

\* grid dimensions (config.py uses 160 x 250 x 50; scaled down)
GRID_DIM_X == 2
GRID_DIM_Y == 2
GRID_DIM_Z == 2
\* most emission samples in one process_gas_step call
MaxGasSources == 1
\* most consecutive process_gas_step calls
MaxSteps == 2
\* most process_gas_step calls followed cell by cell
MaxOrderedSteps == 1
\* most sources in one process_noise call
MaxNoiseSources == 2
\* window-average files in the processed data folder
MaxAvgFiles == 3

(* Program constants *)
GRID_LEFT == 16850
GRID_RIGHT == 18630
GRID_TOP == 37720
GRID_BOTTOM == 35000

-----------------------------------------------------------------------------
(* Exact rational arithmetic standing for the float arithmetic of the code *)

Abs(a) == IF a < 0 THEN -a ELSE a

RECURSIVE GCD(_, _)
GCD(a, b) == IF b = 0 THEN a ELSE GCD(b, a % b)

Rat(n, d) ==
    LET s == IF d < 0 THEN -1 ELSE 1
        g == GCD(Abs(n), Abs(d))
    IN  <<(s * n) \div g, (s * d) \div g>>

RInt(k) == <<k, 1>>

\* the common factor of two naturals (1 when both are 0), cancelled before
\* multiplying
CommonFactor(a, b) == LET g == GCD(a, b) IN IF g = 0 THEN 1 ELSE g

RAdd(p, q) ==
    LET g == CommonFactor(p[2], q[2])
    IN  Rat(p[1] * (q[2] \div g) + q[1] * (p[2] \div g), (p[2] \div g) * q[2])

RNeg(p) == <<-p[1], p[2]>>

RSub(p, q) == RAdd(p, RNeg(q))

RMul(p, q) ==
    LET g == CommonFactor(Abs(p[1]), q[2])
        h == CommonFactor(Abs(q[1]), p[2])
    IN  Rat((p[1] \div g) * (q[1] \div h), (p[2] \div h) * (q[2] \div g))

RDiv(p, q) == RMul(p, Rat(q[2], q[1]))

RLess(p, q) == LET g == CommonFactor(p[2], q[2]) IN p[1] * (q[2] \div g) < q[1] * (p[2] \div g)

RLeq(p, q) == LET g == CommonFactor(p[2], q[2]) IN p[1] * (q[2] \div g) <= q[1] * (p[2] \div g)

RMax(p, q) == IF RLess(p, q) THEN q ELSE p

RMin(p, q) == IF RLess(q, p) THEN q ELSE p

\* int(v) / astype(np.int32) of the quotient a / b (b > 0): truncation towards zero
TruncDiv(a, b) == IF a >= 0 THEN a \div b ELSE -((-a) \div b)

-----------------------------------------------------------------------------
(* Diffusion-decay grid solver *)

Cells == (0 .. GRID_DIM_X - 1) \X (0 .. GRID_DIM_Y - 1) \X (0 .. GRID_DIM_Z - 1)

PaddedCells == (0 .. GRID_DIM_X + 1) \X (0 .. GRID_DIM_Y + 1) \X (0 .. GRID_DIM_Z + 1)

\* ((x_vec_array - GRID_LEFT) / cell_dim_x).astype(np.int32),
\* with cell_dim_x = (GRID_RIGHT - GRID_LEFT) / GRID_DIM_X
x_index(x) == TruncDiv((x - GRID_LEFT) * GRID_DIM_X, GRID_RIGHT - GRID_LEFT)

y_index(y) == TruncDiv((y - GRID_BOTTOM) * GRID_DIM_Y, GRID_TOP - GRID_BOTTOM)

\* the loop of _add_emissions, sample i .. len(x_indices)
RECURSIVE add_emissions_from(_, _, _, _, _)
add_emissions_from(m, i, x_indices, y_indices, emissions) ==
    IF i > Len(x_indices) THEN m
    ELSE LET x_idx == x_indices[i]
             y_idx == y_indices[i]
             m2 == IF 0 <= x_idx /\ x_idx < GRID_DIM_X /\ 0 <= y_idx /\ y_idx < GRID_DIM_Y
                   THEN [m EXCEPT ![<<x_idx, y_idx, 0>>] = RAdd(@, emissions[i])]
                   ELSE m
         IN  add_emissions_from(m2, i + 1, x_indices, y_indices, emissions)

_add_emissions_FirstOnly(m, x_indices, y_indices, emissions) ==
    add_emissions_from(m, 1, SubSeq(x_indices, 1, 1), SubSeq(y_indices, 1, 1), SubSeq(emissions, 1, 1))

_add_emissions(m, x_indices, y_indices, emissions) ==
    add_emissions_from(m, 1, x_indices, y_indices, emissions)

ClampToDefault_Off(value, default_value, V) == value

\* "Ensure no value below default"
ClampToDefault(value, default_value, V) ==
    IF RLess(value, RMul(default_value, V)) THEN RMul(default_value, V) ELSE value

LossTerm_NoRate(dt, loss_rate, mass) == RMul(dt, mass)

\* dt * loss_rate * old_matrix[i,j,k]
LossTerm(dt, loss_rate, mass) == RMul(RMul(dt, loss_rate), mass)

SecondDiff_NoCentre(a, b, c) == RAdd(a, b)

\* a + b - 2*c
SecondDiff(a, b, c) == RSub(RAdd(a, b), RMul(RInt(2), c))

pad_field_NoBottom(m, padded, V) ==
    [p \in PaddedCells |->
        IF /\ 1 <= p[1] /\ p[1] <= GRID_DIM_X
           /\ 1 <= p[2] /\ p[2] <= GRID_DIM_Y
           /\ 1 <= p[3] /\ p[3] <= GRID_DIM_Z
        THEN RDiv(m[<<p[1] - 1, p[2] - 1, p[3] - 1>>], V)
        ELSE padded[p]]

\* "Convert to concentration" and "Apply no-flux boundary at bottom": the padded
\* array when the cell updates begin
pad_field(m, padded, V) ==
    LET \* Convert to concentration
        p1 == [p \in PaddedCells |->
                 IF /\ 1 <= p[1] /\ p[1] <= GRID_DIM_X
                    /\ 1 <= p[2] /\ p[2] <= GRID_DIM_Y
                    /\ 1 <= p[3] /\ p[3] <= GRID_DIM_Z
                 THEN RDiv(m[<<p[1] - 1, p[2] - 1, p[3] - 1>>], V)
                 ELSE padded[p]]
    IN  \* Apply no-flux boundary at bottom
        [p \in PaddedCells |-> IF p[3] = 0 THEN p1[<<p[1], p[2], 1>>] ELSE p1[p]]

cell_update_FromField(m, padded, c, dx2, dy2, dz2, diffusion, loss_rate, default_value, dt, V) ==
    LET at(p) == IF /\ 1 <= p[1] /\ p[1] <= GRID_DIM_X
                    /\ 1 <= p[2] /\ p[2] <= GRID_DIM_Y
                    /\ 1 <= p[3] /\ p[3] <= GRID_DIM_Z
                 THEN RDiv(m[<<p[1] - 1, p[2] - 1, p[3] - 1>>], V)
                 ELSE padded[p]
        i == c[1]
        j == c[2]
        k == c[3]
        diff_change ==
            RAdd(RAdd(
                RMul(RDiv(diffusion, dx2), SecondDiff(at(<<i+2, j+1, k+1>>), at(<<i, j+1, k+1>>), at(<<i+1, j+1, k+1>>))),
                RMul(RDiv(diffusion, dy2), SecondDiff(at(<<i+1, j+2, k+1>>), at(<<i+1, j, k+1>>), at(<<i+1, j+1, k+1>>)))),
                RMul(RDiv(diffusion, dz2), SecondDiff(at(<<i+1, j+1, k+2>>), at(<<i+1, j+1, k>>), at(<<i+1, j+1, k+1>>))))
        updated == RSub(RAdd(m[c], RMul(RMul(dt, V), diff_change)),
                        LossTerm(dt, loss_rate, m[c]))
    IN  ClampToDefault(updated, default_value, V)

\* the body of the update loop for cell c = (i, j, k): the new old_matrix[i,j,k],
\* from the padded array and the cell's own value in the field m
cell_update(m, padded, c, dx2, dy2, dz2, diffusion, loss_rate, default_value, dt, V) ==
    LET i == c[1]
        j == c[2]
        k == c[3]
        diff_x == RDiv(diffusion, dx2)
        diff_y == RDiv(diffusion, dy2)
        diff_z == RDiv(diffusion, dz2)
        diff_change ==
            RAdd(RAdd(
                RMul(diff_x, SecondDiff(padded[<<i+2, j+1, k+1>>], padded[<<i, j+1, k+1>>], padded[<<i+1, j+1, k+1>>])),
                RMul(diff_y, SecondDiff(padded[<<i+1, j+2, k+1>>], padded[<<i+1, j, k+1>>], padded[<<i+1, j+1, k+1>>]))),
                RMul(diff_z, SecondDiff(padded[<<i+1, j+1, k+2>>], padded[<<i+1, j+1, k>>], padded[<<i+1, j+1, k+1>>])))
        updated == RSub(RAdd(m[c], RMul(RMul(dt, V), diff_change)),
                        LossTerm(dt, loss_rate, m[c]))
    IN  ClampToDefault(updated, default_value, V)

\* the update loop from the cells in todo on, in the order i, j, k of the code
RECURSIVE update_loop(_, _, _, _, _, _, _, _, _, _, _)
update_loop(m, padded, todo, dx2, dy2, dz2, diffusion, loss_rate, default_value, dt, V) ==
    IF todo = << >> \/ Head(todo) \notin DOMAIN m THEN m
    ELSE update_loop([m EXCEPT ![Head(todo)] =
                         cell_update(m, padded, Head(todo), dx2, dy2, dz2, diffusion,
                                     loss_rate, default_value, dt, V)],
                     padded, Tail(todo), dx2, dy2, dz2, diffusion, loss_rate,
                     default_value, dt, V)

\* for i in range(x_dim): for j in range(y_dim): for k in range(z_dim)
LoopOrder ==
    [n \in 1 .. GRID_DIM_X * GRID_DIM_Y * GRID_DIM_Z |->
        << (n - 1) \div (GRID_DIM_Y * GRID_DIM_Z),
           ((n - 1) \div GRID_DIM_Z) % GRID_DIM_Y,
           (n - 1) % GRID_DIM_Z >>]

_process_diffusion(m, padded, dx2, dy2, dz2, diffusion, loss_rate, default_value, dt, V) ==
    LET p2 == pad_field(m, padded, V)
    IN  [matrix |-> update_loop(m, p2, LoopOrder, dx2, dy2, dz2, diffusion, loss_rate,
                                default_value, dt, V),
         padded |-> p2]

\* fills the array only while it is as np.zeros left it
fill_Once(padded, value) ==
    IF \A p \in DOMAIN padded : padded[p] = RInt(0) THEN [p \in DOMAIN padded |-> value] ELSE padded

\* padded_concentration.fill(default_value)
fill(padded, value) == [p \in DOMAIN padded |-> value]

\* "Add new emissions if available": the field after the injection of
\* process_gas_step, before the diffusion
inject(m, x_vec, y_vec, emission_vec) ==
    LET x_indices == [i \in 1 .. Len(x_vec) |-> x_index(x_vec[i])]
        y_indices == [i \in 1 .. Len(y_vec) |-> y_index(y_vec[i])]
    IN  IF Len(x_vec) > 0
        THEN _add_emissions(m, x_indices, y_indices, emission_vec)
        ELSE m

\* process_gas_step on the field m with the module-level array padded: returns
\* the new field and what it leaves in padded_concentration
process_gas_step(m, padded, x_vec, y_vec, emission_vec, cell_len_x_m, cell_len_y_m, cell_len_z_m, default_value, diffusion, loss_rate, dt) ==
    LET V == RInt(cell_len_x_m * cell_len_y_m * cell_len_z_m)
        m1 == inject(m, x_vec, y_vec, emission_vec)
        dx2 == RInt(cell_len_x_m * cell_len_x_m)
        dy2 == RInt(cell_len_y_m * cell_len_y_m)
        dz2 == RInt(cell_len_z_m * cell_len_z_m)
    IN  _process_diffusion(m1, fill(padded, default_value), dx2, dy2, dz2, diffusion,
                           loss_rate, default_value, dt, V)

(* The driver's use of the solver: run_sim.py creates the field at the       *)
(* background level and calls process_gas_step once per tick with the same   *)
(* cell lengths, default value, diffusion, loss rate and dt.                 *)

CELL_HEIGHT_Z == 2

\* cell_len_x_m, cell_len_y_m as get_cell_size returns them (inputs of the run)
CellLenXY == {<<1, 2>>, <<2, 1>>}

CO_default_mgm3 == Rat(1, 5)

GasConfigs ==
    [cell_len_xy : {<<1, 2>>},
     default_value : {CO_default_mgm3},
     diffusion : {RInt(0), RInt(1)},
     loss_rate : {RInt(0), Rat(1, 2)},
     dt : {RInt(1), Rat(1, 2)}]

\* emission samples (x, y in SUMO coordinates, emitted mass) of one vehicle
GasSamples ==
    { [x |-> GRID_LEFT,      y |-> GRID_BOTTOM,  e |-> RInt(1)],
      [x |-> GRID_RIGHT - 1, y |-> GRID_TOP - 1, e |-> RInt(2)],
      [x |-> GRID_RIGHT,     y |-> GRID_BOTTOM,  e |-> RInt(1)],
      [x |-> GRID_LEFT,      y |-> GRID_BOTTOM - (GRID_TOP - GRID_BOTTOM), e |-> RInt(2)] }

SampleLists(S, max_len) == UNION { [1 .. n -> S] : n \in 0 .. max_len }

\* x_vec, y_vec, emission_vec of one tick: one entry per vehicle.  Besides the
\* short lists, two vehicles in the same cell, and a vehicle outside the grid
\* before or after one inside.
GasCalls ==
    SampleLists(GasSamples, MaxGasSources)
    \cup { <<a, b>> : a, b \in {s \in GasSamples : s.x = GRID_LEFT /\ s.y = GRID_BOTTOM} }
    \cup { <<a, b>> : a \in {s \in GasSamples : s.x = GRID_RIGHT},
                      b \in {s \in GasSamples : s.x = GRID_RIGHT - 1} }
    \cup { <<b, a>> : a \in {s \in GasSamples : s.x = GRID_RIGHT},
                      b \in {s \in GasSamples : s.x = GRID_RIGHT - 1} }

\* np.zeros(...) + default * factor, factor = cell_len_x_m * cell_len_y_m * cell_len_z_m
InitialField(cfg) ==
    [c \in Cells |->
        RMul(cfg.default_value,
             RInt(cfg.cell_len_xy[1] * cfg.cell_len_xy[2] * CELL_HEIGHT_Z))]

GasInit ==
    /\ gas_cfg \in GasConfigs
    /\ old_matrix = InitialField(gas_cfg)
    /\ padded_concentration = [p \in PaddedCells |-> RInt(0)]
    /\ gas_call = << >>
    /\ gas_steps = 0
    /\ cells_pending = {}

\* old_matrix = process_gas_step(old_matrix=old_matrix, x_vec, y_vec, emission_vec, ...)
CallGasStep(samples) ==
    LET r == process_gas_step(old_matrix, padded_concentration,
                [i \in 1 .. Len(samples) |-> samples[i].x],
                [i \in 1 .. Len(samples) |-> samples[i].y],
                [i \in 1 .. Len(samples) |-> samples[i].e],
                gas_cfg.cell_len_xy[1], gas_cfg.cell_len_xy[2], CELL_HEIGHT_Z,
                gas_cfg.default_value, gas_cfg.diffusion, gas_cfg.loss_rate,
                gas_cfg.dt)
    IN  /\ old_matrix' = r.matrix
        /\ padded_concentration' = r.padded
        /\ gas_call' = samples
        /\ gas_steps' = gas_steps + 1
        /\ cells_pending' = {}

GasStep ==
    /\ gas_steps < MaxSteps
    /\ \E samples \in GasCalls : CallGasStep(samples)
    /\ UNCHANGED <<gas_cfg, noiseVars, statsVars, aqiVars, driverVars>>

\* ---- one call followed update by update, the cells taken in any order

\* process_gas_step up to the update loop: injection, fill, conversion to
\* concentration and the bottom boundary
BeginGasStep ==
    /\ cells_pending = {}
    /\ gas_steps < MaxOrderedSteps
    /\ \E samples \in GasCalls :
          LET V == RInt(gas_cfg.cell_len_xy[1] * gas_cfg.cell_len_xy[2] * CELL_HEIGHT_Z)
              m1 == inject(old_matrix,
                           [i \in 1 .. Len(samples) |-> samples[i].x],
                           [i \in 1 .. Len(samples) |-> samples[i].y],
                           [i \in 1 .. Len(samples) |-> samples[i].e])
          IN  /\ old_matrix' = m1
              /\ padded_concentration' =
                    pad_field(m1, fill(padded_concentration, gas_cfg.default_value), V)
              /\ gas_call' = samples
    /\ cells_pending' = Cells
    /\ UNCHANGED <<gas_cfg, gas_steps, noiseVars, statsVars, aqiVars, driverVars>>

\* the new value of cell c in the call in progress
CellUpdateOf(c) ==
    cell_update(old_matrix, padded_concentration, c,
                RInt(gas_cfg.cell_len_xy[1] * gas_cfg.cell_len_xy[1]),
                RInt(gas_cfg.cell_len_xy[2] * gas_cfg.cell_len_xy[2]),
                RInt(CELL_HEIGHT_Z * CELL_HEIGHT_Z),
                gas_cfg.diffusion, gas_cfg.loss_rate, gas_cfg.default_value, gas_cfg.dt,
                RInt(gas_cfg.cell_len_xy[1] * gas_cfg.cell_len_xy[2] * CELL_HEIGHT_Z))

\* one pass of the loop body, for any cell not yet updated; the call returns
\* when none is left
UpdateCell ==
    /\ \E c \in cells_pending :
          /\ old_matrix' = [old_matrix EXCEPT ![c] = CellUpdateOf(c)]
          /\ cells_pending' = cells_pending \ {c}
          /\ gas_steps' = IF cells_pending = {c} THEN gas_steps + 1 ELSE gas_steps
    /\ UNCHANGED <<gas_cfg, padded_concentration, gas_call, noiseVars, statsVars, aqiVars, driverVars>>

\* ---- the solver call for another pollutant field between two calls for the
\* field the model follows: it uses the same module-level padded array

NO2_default_mgm3 == Rat(17, 1000)

\* nox_vector_global_mgcell = process_gas_step(old_matrix=nox_vector_global_mgcell, ...,
\* default_value=NO2_default_mgm3, ...): what it leaves in padded_concentration.
\* The NOx field is taken at its initial level.
NoxGasStep ==
    /\ cells_pending = {}
    /\ gas_steps < MaxSteps
    /\ \E samples \in SampleLists(GasSamples, MaxGasSources) :
          padded_concentration' =
              process_gas_step(
                  [c \in Cells |->
                      RMul(NO2_default_mgm3,
                           RInt(gas_cfg.cell_len_xy[1] * gas_cfg.cell_len_xy[2] * CELL_HEIGHT_Z))],
                  padded_concentration,
                  [i \in 1 .. Len(samples) |-> samples[i].x],
                  [i \in 1 .. Len(samples) |-> samples[i].y],
                  [i \in 1 .. Len(samples) |-> samples[i].e],
                  gas_cfg.cell_len_xy[1], gas_cfg.cell_len_xy[2], CELL_HEIGHT_Z,
                  NO2_default_mgm3, gas_cfg.diffusion, gas_cfg.loss_rate, gas_cfg.dt).padded
    /\ UNCHANGED <<gas_cfg, old_matrix, gas_call, gas_steps, cells_pending>>
    /\ UNCHANGED <<noiseVars, statsVars, aqiVars, driverVars>>

\* values of the variables a specification does not use
GasIdle ==
    /\ gas_cfg = [cell_len_xy |-> <<1, 1>>, default_value |-> RInt(0),
                  diffusion |-> RInt(0), loss_rate |-> RInt(0), dt |-> RInt(1)]
    /\ old_matrix = [c \in Cells |-> RInt(0)]
    /\ padded_concentration = [p \in PaddedCells |-> RInt(0)]
    /\ gas_call = << >>
    /\ gas_steps = 0
    /\ cells_pending = {}

-----------------------------------------------------------------------------
(* Noise field model *)

Cells2D == (0 .. GRID_DIM_X - 1) \X (0 .. GRID_DIM_Y - 1)

Max(a, b) == IF a >= b THEN a ELSE b

Min(a, b) == IF a <= b THEN a ELSE b

RECURSIVE Pow10(_)
Pow10(k) == IF k = 0 THEN 1 ELSE 10 * Pow10(k - 1)

\* 10 ** (dB / 10); the levels of the model are multiples of 10 dB
LinearPower(dB) == Pow10(dB \div 10)

\* np.pi lies strictly between these two rationals
PI_LO == Rat(314, 100)
PI_HI == Rat(315, 100)

SourcePower_NoFloor(level, background_dB) == level

\* Lw = max(noise_vec[i], background_dB)
SourcePower(level, background_dB) == Max(level, background_dB)

SourceInGrid_Always(x_idx, y_idx) == TRUE

\* 0 <= x_idx < GRID_DIM_X and 0 <= y_idx < GRID_DIM_Y ("Skip if outside grid")
SourceInGrid(x_idx, y_idx) ==
    0 <= x_idx /\ x_idx < GRID_DIM_X /\ 0 <= y_idx /\ y_idx < GRID_DIM_Y

BoundingBox_NoPlusOne(x_idx, y_idx, radius, cell_len_x_m, cell_len_y_m) ==
    [x_min |-> Max(0, x_idx - radius \div cell_len_x_m),
     x_max |-> Min(GRID_DIM_X, x_idx + radius \div cell_len_x_m),
     y_min |-> Max(0, y_idx - radius \div cell_len_y_m),
     y_max |-> Min(GRID_DIM_Y, y_idx + radius \div cell_len_y_m)]

\* x_min .. y_max; range(x_min, x_max) excludes x_max
BoundingBox(x_idx, y_idx, radius, cell_len_x_m, cell_len_y_m) ==
    [x_min |-> Max(0, x_idx - radius \div cell_len_x_m),
     x_max |-> Min(GRID_DIM_X, x_idx + radius \div cell_len_x_m + 1),
     y_min |-> Max(0, y_idx - radius \div cell_len_y_m),
     y_max |-> Min(GRID_DIM_Y, y_idx + radius \div cell_len_y_m + 1)]

\* dist_squared_m of cell (x, y) from the source's cell
dist_squared_m(x, y, x_idx, y_idx, cell_len_x_m, cell_len_y_m) ==
    LET dx == (x - x_idx) * cell_len_x_m
        dy == (y - y_idx) * cell_len_y_m
    IN  dx * dx + dy * dy

\* linear_contribution = 10 ** (Lp / 10), Lp = Lw - 10 * log10(4 * pi * max(d2, 1)),
\* that is 10 ** (Lw / 10) / (4 * pi * max(d2, 1)); kept as the coefficient of 1 / (4 pi)
linear_contribution(Lw, d2) == Rat(LinearPower(Lw), Max(d2, 1))

\* A cell of linear_matrix holds bg + src / (4 pi): bg and src are kept apart
\* because pi is irrational.
RECURSIVE noise_from(_, _, _, _, _, _, _, _, _)
noise_from(lm, i, x_vec, y_vec, noise_vec, cell_len_x_m, cell_len_y_m, radius, background_dB) ==
    IF i > Len(x_vec) THEN lm
    ELSE LET x_idx == x_index(x_vec[i])
             y_idx == y_index(y_vec[i])
             Lw == SourcePower(noise_vec[i], background_dB)
             box == BoundingBox(x_idx, y_idx, radius, cell_len_x_m, cell_len_y_m)
             d2(c) == dist_squared_m(c[1], c[2], x_idx, y_idx, cell_len_x_m, cell_len_y_m)
             lm2 == IF ~SourceInGrid(x_idx, y_idx)
                    THEN lm
                    ELSE [c \in Cells2D |->
                            IF /\ box.x_min <= c[1] /\ c[1] < box.x_max
                               /\ box.y_min <= c[2] /\ c[2] < box.y_max
                               /\ ~(d2(c) > radius * radius)
                            THEN [lm[c] EXCEPT !.src = RAdd(@, linear_contribution(Lw, d2(c)))]
                            ELSE lm[c]]
         IN  noise_from(lm2, i + 1, x_vec, y_vec, noise_vec, cell_len_x_m, cell_len_y_m, radius, background_dB)

\* process_noise up to (not including) the final 10 * log10(linear_matrix)
process_noise(x_vec, y_vec, noise_vec, cell_len_x_m, cell_len_y_m, radius, background_dB) ==
    noise_from([c \in Cells2D |-> [bg |-> RInt(LinearPower(background_dB)), src |-> RInt(0)]],
               1, x_vec, y_vec, noise_vec, cell_len_x_m, cell_len_y_m, radius, background_dB)

\* background_dB=30 is the default the driver uses
background_dB_default == 30

NoiseRadii == {1, 2}

NoiseConfigs == [cell_len_xy : CellLenXY, radius : NoiseRadii, background_dB : {background_dB_default}]

NoiseSamples ==
    { [x |-> GRID_LEFT,      y |-> GRID_BOTTOM,  level |-> 20],
      [x |-> GRID_LEFT,      y |-> GRID_BOTTOM,  level |-> 50],
      [x |-> GRID_LEFT,      y |-> GRID_TOP - 1, level |-> 40],
      [x |-> GRID_RIGHT - 1, y |-> GRID_TOP - 1, level |-> 40],
      [x |-> GRID_RIGHT,     y |-> GRID_BOTTOM,  level |-> 50],
      [x |-> GRID_LEFT,      y |-> GRID_BOTTOM - (GRID_TOP - GRID_BOTTOM), level |-> 50] }

NoiseInit ==
    /\ noise_cfg \in NoiseConfigs
    /\ noise_call = << >>
    /\ linear_matrix = [c \in Cells2D |-> [bg |-> RInt(0), src |-> RInt(0)]]
    /\ noise_ran = FALSE

NoiseStep ==
    /\ \E samples \in SampleLists(NoiseSamples, MaxNoiseSources) :
         /\ noise_call' = samples
         /\ linear_matrix' = process_noise(
                [i \in 1 .. Len(samples) |-> samples[i].x],
                [i \in 1 .. Len(samples) |-> samples[i].y],
                [i \in 1 .. Len(samples) |-> samples[i].level],
                noise_cfg.cell_len_xy[1], noise_cfg.cell_len_xy[2],
                noise_cfg.radius, noise_cfg.background_dB)
    /\ noise_ran' = TRUE
    /\ UNCHANGED <<noise_cfg, gasVars, statsVars, aqiVars, driverVars>>

NoiseIdle ==
    /\ noise_cfg = [cell_len_xy |-> <<1, 1>>, radius |-> 1, background_dB |-> background_dB_default]
    /\ noise_call = << >>
    /\ linear_matrix = [c \in Cells2D |-> [bg |-> RInt(0), src |-> RInt(0)]]
    /\ noise_ran = FALSE

-----------------------------------------------------------------------------
(* Snapshot statistics aggregator (process_data.py) *)

HOUR_SEC == 3600
GAS_HEIGHT == 1
\* SIM_TIME = TIME_PER_SCREENSHOT*24: a run writes 24 screenshots
ScreenshotsPerRun == 24
\* the values a snapshot cell takes in the model
SnapshotValues == {1, 2}

\* np.inf
INF == <<1, 0>>

RoundDown(a, b) == a \div b

\* round(a / b) of Python 3: to the nearest integer, ties to the even one
RoundHalfEven(a, b) ==
    LET q == a \div b
        r == a % b
    IN  IF 2 * r < b THEN q
        ELSE IF 2 * r > b THEN q + 1
        ELSE IF q % 2 = 0 THEN q ELSE q + 1

\* file_data.sort(key=lambda x: x[1]): a stable sort by timestamp
RECURSIVE InsertSorted(_, _)
InsertSorted(sorted, item) ==
    IF sorted = << >> THEN <<item>>
    ELSE IF sorted[Len(sorted)][2] <= item[2] THEN Append(sorted, item)
    ELSE Append(InsertSorted(SubSeq(sorted, 1, Len(sorted) - 1), item), sorted[Len(sorted)])

RECURSIVE SortByTimestamp(_)
SortByTimestamp(file_data) ==
    IF file_data = << >> THEN << >>
    ELSE InsertSorted(SortByTimestamp(SubSeq(file_data, 1, Len(file_data) - 1)),
                      file_data[Len(file_data)])

valid_timestamp_BeforeMidnight(timestamp) == 0 <= timestamp /\ timestamp < 86400

\* not (timestamp < 0 or timestamp > 86400)
valid_timestamp(timestamp) == ~(timestamp < 0 \/ timestamp > 86400)

\* One pass of the grouping loop of process_data_statistics, for file f.
\* A file is [parts, key, height, timestamp, data]: parts is the number of
\* "_"-separated parts of its name, key is parts[0]_parts[1].
\* st.data_types maps each key to its list of <<file, rounded timestamp>>;
\* st.stopped says that the loop was left with break.
group_file(f, st) ==
    LET timestamp == RoundHalfEven(f.timestamp, HOUR_SEC) * HOUR_SEC
        data_types == st.data_types
    IN  IF f.parts # 3 /\ f.parts # 4 THEN [st EXCEPT !.stopped = TRUE]        \* break
        ELSE IF f.parts = 4 /\ f.height # 1 THEN st                           \* continue
        ELSE IF ~valid_timestamp(timestamp) THEN st                           \* continue
        ELSE IF f.key \in DOMAIN data_types
             THEN [st EXCEPT !.data_types[f.key] = Append(@, <<f, timestamp>>)]
        ELSE [st EXCEPT !.data_types =
                 [k \in DOMAIN data_types \cup {f.key} |->
                     IF k = f.key THEN << <<f, timestamp>> >> ELSE data_types[k]]]

\* the passes for files lo .. hi in listing order, the first half of the
\* range before the second
RECURSIVE group_range(_, _, _, _)
group_range(files, lo, hi, st) ==
    IF st.stopped \/ lo > hi THEN st
    ELSE IF lo = hi THEN group_file(files[lo], st)
    ELSE group_range(files, (lo + hi) \div 2 + 1, hi,
                     group_range(files, lo, (lo + hi) \div 2, st))

\* the grouping loop over files i .. len(files)
group_files(files, i, data_types) ==
    group_range(files, i, Len(files), [data_types |-> data_types, stopped |-> FALSE]).data_types

update_max_Min(max_array, current_array) ==
    [c \in Cells2D |-> RMin(max_array[c], current_array[c])]

\* max_array = np.maximum(max_array, current_array)
update_max(max_array, current_array) ==
    [c \in Cells2D |-> RMax(max_array[c], current_array[c])]

\* min_array = np.minimum(min_array, current_array)
update_min(min_array, current_array) ==
    [c \in Cells2D |-> RMin(min_array[c], current_array[c])]

\* The loop "for file, timestamp in file_data" of calculate_statistics
RECURSIVE stats_loop(_, _, _)
stats_loop(file_data, i, acc) ==
    IF i > Len(file_data) THEN acc
    \* never the case: the comparison makes TLC evaluate the arrays built so far
    ELSE IF acc.sum_array = << >> \/ acc.max_array = << >> \/ acc.min_array = << >>
            \/ acc.timestamp_data = <<0>> THEN acc
    ELSE LET current_array == file_data[i][1].data
             timestamp == file_data[i][2]
             td == [t \in DOMAIN acc.timestamp_data \cup {timestamp} |->
                      IF t = timestamp THEN current_array ELSE acc.timestamp_data[t]]
         IN  stats_loop(file_data, i + 1,
                 [timestamp_data |-> td,
                  max_array |-> update_max(acc.max_array, current_array),
                  min_array |-> update_min(acc.min_array, current_array),
                  sum_array |-> [c \in Cells2D |-> RAdd(acc.sum_array[c], current_array[c])]])

EnoughPoints_Any(n_points, min_points) == n_points >= 1

\* if len(window_timestamps) >= min_points
EnoughPoints(n_points, min_points) == n_points >= min_points

RECURSIVE SumArrays(_, _)
SumArrays(ts, timestamp_data) ==
    IF ts = {} THEN [c \in Cells2D |-> RInt(0)]
    ELSE LET t == CHOOSE t \in ts : TRUE
             rest == SumArrays(ts \ {t}, timestamp_data)
         IN  IF rest = << >> THEN rest      \* never the case: makes TLC evaluate rest
             ELSE [c \in Cells2D |-> RAdd(rest[c], timestamp_data[t][c])]

\* calculate_moving_average_for_window: the files it writes, as a function from
\* start_hour to window_avg
calculate_moving_average_for_window(timestamps, timestamp_data, window_size, min_points) ==
    LET window_timestamps(start_time) ==
            {t \in timestamps : start_time <= t /\ t < start_time + window_size}
        starts == {st \in timestamps :
                     EnoughPoints(Cardinality(window_timestamps(st)), min_points)}
        window_avg(st) ==
            LET window_sum == SumArrays(window_timestamps(st), timestamp_data)
                count == Cardinality(window_timestamps(st))
            IN  [c \in Cells2D |-> RDiv(window_sum[c], RInt(count))]
    IN  [start_hour \in {TruncDiv(st, HOUR_SEC) : st \in starts} |->
            window_avg(start_hour * HOUR_SEC)]

\* the windows list of calculate_moving_averages
windows ==
    { [name |-> "1h",  window_size |-> HOUR_SEC,      min_points |-> 1],
      [name |-> "8h",  window_size |-> 8 * HOUR_SEC,  min_points |-> 8],
      [name |-> "24h", window_size |-> 24 * HOUR_SEC, min_points |-> 24] }

WindowNames == {w.name : w \in windows}

WindowOf(name) == CHOOSE w \in windows : w.name = name

calculate_moving_averages(timestamp_data) ==
    LET timestamps == DOMAIN timestamp_data
    IN  [name \in WindowNames |->
            IF timestamps = {} THEN << >>
            ELSE calculate_moving_average_for_window(timestamps, timestamp_data,
                     WindowOf(name).window_size, WindowOf(name).min_points)]

\* calculate_statistics: the arrays it saves for one data key
calculate_statistics(file_data_unsorted) ==
    LET file_data == SortByTimestamp(file_data_unsorted)
        file_count == Len(file_data)
        acc == stats_loop(file_data, 1,
                  [timestamp_data |-> << >>,
                   max_array |-> [c \in Cells2D |-> RInt(0)],
                   min_array |-> [c \in Cells2D |-> INF],
                   sum_array |-> [c \in Cells2D |-> RInt(0)]])
        \* min_array[np.isinf(min_array)] = 0
        min_array == [c \in Cells2D |-> IF acc.min_array[c] = INF THEN RInt(0) ELSE acc.min_array[c]]
        avg_array == IF file_count > 0
                     THEN [c \in Cells2D |-> RDiv(acc.sum_array[c], RInt(file_count))]
                     ELSE acc.sum_array
    IN  [max |-> acc.max_array,
         min |-> min_array,
         avg |-> avg_array,
         diff |-> [c \in Cells2D |-> RSub(acc.max_array[c], min_array[c])],
         moving |-> calculate_moving_averages(acc.timestamp_data)]

\* process_data_statistics: what is written, per data key
process_data_statistics(files) ==
    LET data_types == group_files(files, 1, << >>)
    IN  [k \in DOMAIN data_types |-> calculate_statistics(data_types[k])]

\* ---- the snapshots a run writes (helper.save_all_data, called by the driver)

TimesPerScreenshot == {1800, 2700, 3600, 7200}

SnapshotArray(v) == [c \in Cells2D |-> IF c = <<0, 0>> THEN RInt(v) ELSE RInt(1)]

\* number of save_all_data calls so far (each writes a gas and a noise file)
SnapshotsTaken == Len(data_folder) \div 2

LastVal == IF data_folder = << >> THEN 1 ELSE data_folder[Len(data_folder) - 1].data[<<0, 0>>][1]

StatsInit ==
    /\ time_per_screenshot \in TimesPerScreenshot
    /\ data_folder = << >>
    /\ stats_out = << >>
    /\ stats_done = FALSE

\* save_all_data at curr_time = k * TIME_PER_SCREENSHOT: the gas file of the
\* reference height, data_co_{GAS_HEIGHT}_{t} (the model follows one pollutant,
\* CO), and the noise file data_noise_{t}
SaveSnapshot ==
    /\ ~stats_done
    /\ SnapshotsTaken < ScreenshotsPerRun
    /\ \E v \in {u \in SnapshotValues : u >= LastVal} :
         LET t == (SnapshotsTaken + 1) * time_per_screenshot
         IN  data_folder' = data_folder \o
               << [parts |-> 4, key |-> "data_co", height |-> GAS_HEIGHT,
                   timestamp |-> t, data |-> SnapshotArray(v)],
                  [parts |-> 3, key |-> "data_noise", height |-> 0,
                   timestamp |-> t, data |-> SnapshotArray(1)] >>
    /\ UNCHANGED <<time_per_screenshot, stats_out, stats_done, gasVars, noiseVars, aqiVars, driverVars>>

ProcessStatistics ==
    /\ ~stats_done
    /\ stats_out' = process_data_statistics(data_folder)
    /\ stats_done' = TRUE
    /\ UNCHANGED <<time_per_screenshot, data_folder, gasVars, noiseVars, aqiVars, driverVars>>

\* ---- a data folder as glob.glob("data_*_*.csv") lists it, in any order

MaxListed == 3

\* names matching the pattern: snapshots of the reference height, a noise
\* snapshot, a snapshot of another height, one past the day, and a name of
\* five parts (data_co_1_3600_old.csv)
ListedFiles ==
    { [parts |-> 4, key |-> "data_co", height |-> GAS_HEIGHT, timestamp |-> 3600, data |-> SnapshotArray(1)],
      [parts |-> 4, key |-> "data_co", height |-> GAS_HEIGHT, timestamp |-> 7200, data |-> SnapshotArray(2)],
      [parts |-> 3, key |-> "data_noise", height |-> 0, timestamp |-> 3600, data |-> SnapshotArray(1)],
      [parts |-> 4, key |-> "data_nox", height |-> 2, timestamp |-> 3600, data |-> SnapshotArray(1)],
      [parts |-> 4, key |-> "data_pmx", height |-> GAS_HEIGHT, timestamp |-> 93600, data |-> SnapshotArray(1)],
      [parts |-> 5, key |-> "data_co", height |-> GAS_HEIGHT, timestamp |-> 3600, data |-> SnapshotArray(1)] }

\* a file of the folder takes any place in the listing
ListFile ==
    /\ ~stats_done
    /\ Len(data_folder) < MaxListed
    /\ \E f \in ListedFiles \ {data_folder[i] : i \in 1 .. Len(data_folder)} :
         \E at \in 0 .. Len(data_folder) :
            data_folder' = SubSeq(data_folder, 1, at) \o <<f>>
                              \o SubSeq(data_folder, at + 1, Len(data_folder))
    /\ UNCHANGED <<time_per_screenshot, stats_out, stats_done, gasVars, noiseVars, aqiVars, driverVars>>

StatsIdle ==
    /\ time_per_screenshot = 3600
    /\ data_folder = << >>
    /\ stats_out = << >>
    /\ stats_done = FALSE

-----------------------------------------------------------------------------
(* AQI / AQIH converter (process_gas_to_aqi.py) *)

\* a breakpoint [concentration_low, concentration_high, index_low, index_high]
BP(lo, hi, il, ih) == [lo |-> lo, hi |-> hi, il |-> il, ih |-> ih]

\* a decimal with one digit after the point
D1(tenths) == Rat(tenths, 10)

breakpoints_US ==
    [p \in {"CO", "NO2", "PM2.5"} |->
       IF p = "CO" THEN
         << BP(RInt(0), D1(44), 0, 50),
            BP(D1(45), D1(94), 51, 100),
            BP(D1(95), D1(124), 101, 150),
            BP(D1(125), D1(154), 151, 200),
            BP(D1(155), D1(304), 201, 300),
            BP(D1(305), D1(404), 301, 400),
            BP(D1(405), D1(504), 401, 500) >>
       ELSE IF p = "NO2" THEN
         << BP(RInt(0), RInt(53), 0, 50),
            BP(RInt(54), RInt(100), 51, 100),
            BP(RInt(101), RInt(360), 101, 150),
            BP(RInt(361), RInt(649), 151, 200),
            BP(RInt(650), RInt(1249), 201, 300),
            BP(RInt(1250), RInt(1649), 301, 400),
            BP(RInt(1650), RInt(2049), 401, 500) >>
       ELSE
         << BP(RInt(0), D1(120), 0, 50),
            BP(D1(121), D1(354), 51, 100),
            BP(D1(355), D1(554), 101, 150),
            BP(D1(555), D1(1504), 151, 200),
            BP(D1(1505), D1(2504), 201, 300),
            BP(D1(2505), D1(3504), 301, 400),
            BP(D1(3505), D1(5004), 401, 500) >>]

breakpoints_AQIH ==
    [p \in {"NO2", "PM2.5"} |->
       IF p = "NO2" THEN
         << BP(RInt(0), RInt(67), 1, 1),
            BP(RInt(67), RInt(134), 1, 2),
            BP(RInt(134), RInt(200), 2, 3),
            BP(RInt(200), RInt(267), 3, 4),
            BP(RInt(267), RInt(334), 4, 5),
            BP(RInt(334), RInt(400), 5, 6),
            BP(RInt(400), RInt(467), 6, 7),
            BP(RInt(467), RInt(534), 7, 8),
            BP(RInt(534), RInt(600), 8, 9),
            BP(RInt(600), INF, 9, 10) >>
       ELSE
         << BP(RInt(0), RInt(11), 1, 1),
            BP(RInt(11), RInt(23), 1, 2),
            BP(RInt(23), RInt(35), 2, 3),
            BP(RInt(35), RInt(53), 3, 4),
            BP(RInt(53), RInt(70), 4, 5),
            BP(RInt(70), RInt(88), 5, 6),
            BP(RInt(88), RInt(106), 6, 7),
            BP(RInt(106), RInt(124), 7, 8),
            BP(RInt(124), RInt(142), 8, 9),
            BP(RInt(142), INF, 9, 10) >>]

\* ((bp[3] - bp[2]) / (bp[1] - bp[0])) * (concentration - bp[0]) + bp[2].
\* With bp[1] = float('inf') the quotient is x / inf = 0.0.
interpolate(bp, concentration) ==
    LET slope == IF bp.hi = INF THEN RInt(0)
                 ELSE RDiv(RInt(bp.ih - bp.il), RSub(bp.hi, bp.lo))
    IN  RAdd(RMul(slope, RSub(concentration, bp.lo)), RInt(bp.il))

InTier_US_HalfOpen(bp, concentration) == RLeq(bp.lo, concentration) /\ RLess(concentration, bp.hi)

\* if bp[0] <= concentration <= bp[1]
InTier_US(bp, concentration) == RLeq(bp.lo, concentration) /\ RLeq(concentration, bp.hi)

\* if bp[0] <= concentration < bp[1]
InTier_AQIH(bp, concentration) == RLeq(bp.lo, concentration) /\ RLess(concentration, bp.hi)

Returned(v) == [error |-> FALSE, value |-> v]

AssertionError == [error |-> TRUE, value |-> RInt(0)]

beyond_tiers_US_Zero(tiers, concentration) == RInt(0)

\* after the loop: if concentration > breakpoints[pollutant][-1][1]: return 500
\* else: return 0
beyond_tiers_US(tiers, concentration) ==
    IF RLess(tiers[Len(tiers)].hi, concentration) THEN RInt(500) ELSE RInt(0)

RECURSIVE us_aqi_from(_, _, _)
us_aqi_from(tiers, i, concentration) ==
    IF i > Len(tiers)
    THEN beyond_tiers_US(tiers, concentration)
    ELSE IF InTier_US(tiers[i], concentration) THEN interpolate(tiers[i], concentration)
    ELSE us_aqi_from(tiers, i + 1, concentration)

calculate_aqi_for_pollutant_US_AQI(concentration, pollutant) ==
    Returned(us_aqi_from(breakpoints_US[pollutant], 1, concentration))

RECURSIVE aqih_from(_, _, _)
aqih_from(tiers, i, concentration) ==
    IF i > Len(tiers) THEN RInt(10)
    ELSE IF InTier_AQIH(tiers[i], concentration) THEN interpolate(tiers[i], concentration)
    ELSE aqih_from(tiers, i + 1, concentration)

calculate_aqi_for_pollutant_AQIH_NoClamp(concentration, pollutant) ==
    IF pollutant = "CO" THEN AssertionError
    ELSE Returned(aqih_from(breakpoints_AQIH[pollutant], 1, concentration))

calculate_aqi_for_pollutant_AQIH(concentration, pollutant) ==
    IF pollutant = "CO" THEN AssertionError
    ELSE IF RLess(concentration, RInt(0)) THEN Returned(RInt(1))
    ELSE Returned(aqih_from(breakpoints_AQIH[pollutant], 1, concentration))

\* ---- the concentrations the converter is called with in the model

Half(p, q) == RDiv(RAdd(p, q), RInt(2))

TierConcs(tiers) ==
    UNION { LET bp == tiers[i]
                top == IF bp.hi = INF THEN RAdd(bp.lo, RInt(100)) ELSE bp.hi
            IN  {bp.lo, top, Half(bp.lo, top), RAdd(top, Rat(1, 20)), RSub(top, Rat(1, 20))}
            : i \in 1 .. Len(tiers) }
    \cup {RInt(-1), Rat(-1, 20)}

AqiInit ==
    /\ aqi_call = [scale |-> "none", pollutant |-> "none", concentration |-> RInt(0)]
    /\ aqi_result = Returned(RInt(0))
    /\ avg_data_folder = << >>
    /\ final_results = << >>
    /\ aqih_calls = {}
    /\ aqi_done = FALSE

ScoreUS ==
    /\ \E pollutant \in DOMAIN breakpoints_US :
         \E concentration \in TierConcs(breakpoints_US[pollutant]) :
            /\ aqi_call' = [scale |-> "US", pollutant |-> pollutant, concentration |-> concentration]
            /\ aqi_result' = calculate_aqi_for_pollutant_US_AQI(concentration, pollutant)
    /\ UNCHANGED <<avg_data_folder, final_results, aqih_calls, aqi_done>>
    /\ UNCHANGED <<gasVars, noiseVars, statsVars, driverVars>>

ScoreAQIH ==
    /\ \E pollutant \in {"CO", "NO2", "PM2.5"} :
         \E concentration \in TierConcs(breakpoints_AQIH[IF pollutant = "CO" THEN "NO2" ELSE pollutant]) :
            /\ aqi_call' = [scale |-> "AQIH", pollutant |-> pollutant, concentration |-> concentration]
            /\ aqi_result' = calculate_aqi_for_pollutant_AQIH(concentration, pollutant)
    /\ UNCHANGED <<avg_data_folder, final_results, aqih_calls, aqi_done>>
    /\ UNCHANGED <<gasVars, noiseVars, statsVars, driverVars>>

\* ---- process_gas_to_aqi: from the window averages to the index grids

\* pollutant_config: the window-average pattern and the conversion factors of
\* each pollutant; mg_per_m3_to_ppm(w) = 24.45 / w
pollutant_config ==
    [p \in {"co", "nox", "pmx"} |->
       IF p = "co"
       THEN [pattern |-> "8h", conversion_factor_us_AQI |-> Rat(2445, 2801),
             conversion_factor_AQIH |-> RInt(1000)]
       ELSE IF p = "nox"
       THEN [pattern |-> "1h", conversion_factor_us_AQI |-> Rat(2445000, 4601),
             conversion_factor_AQIH |-> RInt(1000)]
       ELSE [pattern |-> "24h", conversion_factor_us_AQI |-> RInt(1000),
             conversion_factor_AQIH |-> RInt(1000)]]

glob_AnyWindow(folder, pollutant) == {f \in DOMAIN folder : f[1] = pollutant}

\* glob.glob of data_{pollutant}{pattern}*.csv: the files of the pollutant
\* written for the window of its pattern
glob(folder, pollutant) ==
    {f \in DOMAIN folder : f[1] = pollutant /\ f[2] = pollutant_config[pollutant].pattern}

\* 'CO' if pollutant == 'co' else 'NO2' if pollutant == 'nox' else 'PM2.5'
pollutant_type_US(pollutant) ==
    IF pollutant = "co" THEN "CO" ELSE IF pollutant = "nox" THEN "NO2" ELSE "PM2.5"

\* 'NO2' if pollutant == 'nox' else 'PM2.5'
pollutant_type_AQIH(pollutant) == IF pollutant = "nox" THEN "NO2" ELSE "PM2.5"

\* the calls of one file's cell loop, per cell
score_US(data, pollutant) ==
    [c \in Cells2D |->
        calculate_aqi_for_pollutant_US_AQI(
            RMul(data[c], pollutant_config[pollutant].conversion_factor_us_AQI),
            pollutant_type_US(pollutant))]

score_AQIH(data, pollutant) ==
    [c \in Cells2D |->
        calculate_aqi_for_pollutant_AQIH(
            RMul(data[c], pollutant_config[pollutant].conversion_factor_AQIH),
            pollutant_type_AQIH(pollutant))]

\* max_aqi = np.zeros(...); for file_path in files: max_aqi = np.maximum(max_aqi, aqi_array)
RECURSIVE max_aqi_from(_, _)
max_aqi_from(scored, max_aqi) ==
    IF scored = {} THEN max_aqi
    ELSE LET r == CHOOSE q \in scored : TRUE
         IN  max_aqi_from(scored \ {r}, update_max(max_aqi, [c \in Cells2D |-> r[c].value]))

\* max(aqi_values) over the pollutants of all_aqi_data, in every cell
overall_aqi(all_aqi_data) ==
    [c \in Cells2D |->
        CHOOSE v \in {all_aqi_data[p][c] : p \in DOMAIN all_aqi_data} :
            \A p \in DOMAIN all_aqi_data : RLeq(all_aqi_data[p][c], v)]

\* the files one of the two passes saves: {pollutant}{suffix} for every
\* pollutant with files, and overall{suffix} if there is any
saved_grids(all_aqi_data, suffix) ==
    LET names == {p \o suffix : p \in DOMAIN all_aqi_data}
    IN  [n \in names \cup (IF names = {} THEN {} ELSE {"overall" \o suffix}) |->
            IF n = "overall" \o suffix THEN overall_aqi(all_aqi_data)
            ELSE all_aqi_data[CHOOSE p \in DOMAIN all_aqi_data : p \o suffix = n]]

skip_AQIH_Never(pollutant) == FALSE

\* if pollutant == 'co': continue
skip_AQIH(pollutant) == pollutant = "co"

\* process_gas_to_aqi: the grids it saves, the AQIH calls it makes, and whether
\* a call raised (the grids saved before are kept, the rest is not written)
process_gas_to_aqi(folder) ==
    LET scored_US(p) == {score_US(folder[f], p) : f \in glob(folder, p)}
        all_aqi_data_US ==
            [p \in {q \in DOMAIN pollutant_config : glob(folder, q) # {}} |->
                max_aqi_from(scored_US(p), [c \in Cells2D |-> RInt(0)])]
        with_files == {q \in DOMAIN pollutant_config : ~skip_AQIH(q) /\ glob(folder, q) # {}}
        scored_AQIH(p) == {score_AQIH(folder[f], p) : f \in glob(folder, p)}
        raised == \E p \in with_files : \E r \in scored_AQIH(p) : \E c \in Cells2D : r[c].error
        all_aqi_data_AQIH ==
            [p \in with_files |-> max_aqi_from(scored_AQIH(p), [c \in Cells2D |-> RInt(0)])]
    IN  [saved |-> IF raised THEN saved_grids(all_aqi_data_US, "_max_aqi")
                   ELSE saved_grids(all_aqi_data_US, "_max_aqi")
                          @@ saved_grids(all_aqi_data_AQIH, "_max_aqih"),
         calls |-> {<<p, pollutant_type_AQIH(p)>> : p \in with_files},
         raised |-> raised]

\* ---- the window averages the aggregator leaves in the processed data folder

\* a level of each pollutant in a cell [mg/m^3]: 2 or 10 ppm of CO, 40 or
\* 200 ppb of NO2, 10 or 40 ug/m^3 of PM2.5
Level(pollutant, high) ==
    LET target == IF pollutant = "co" THEN (IF high THEN 10 ELSE 2)
                  ELSE IF pollutant = "nox" THEN (IF high THEN 200 ELSE 40)
                  ELSE (IF high THEN 40 ELSE 10)
    IN  RDiv(RInt(target), pollutant_config[pollutant].conversion_factor_us_AQI)

\* one array high in cell (0, 0) and low elsewhere, one the other way round
AvgArrays(pollutant) ==
    { [c \in Cells2D |-> Level(pollutant, (c = <<0, 0>>) = first)] : first \in BOOLEAN }

AvgHours == {0, 1}

\* save_vec_to_csv(window_avg, avg_data_folder, filename) of the aggregator: a
\* window average data_{pollutant}_{window}_avg_..{start_hour}.csv
WriteAverage ==
    /\ ~aqi_done
    /\ Cardinality(DOMAIN avg_data_folder) < MaxAvgFiles
    /\ \E p \in DOMAIN pollutant_config, w \in WindowNames, h \in AvgHours :
          /\ <<p, w, h>> \notin DOMAIN avg_data_folder
          /\ \E a \in AvgArrays(p) :
                avg_data_folder' = [f \in DOMAIN avg_data_folder \cup {<<p, w, h>>} |->
                                      IF f = <<p, w, h>> THEN a ELSE avg_data_folder[f]]
    /\ UNCHANGED <<aqi_call, aqi_result, final_results, aqih_calls, aqi_done>>
    /\ UNCHANGED <<gasVars, noiseVars, statsVars, driverVars>>

ProcessGasToAqi ==
    /\ ~aqi_done
    /\ LET done == process_gas_to_aqi(avg_data_folder)
       IN  /\ final_results' = done.saved
           /\ aqih_calls' = done.calls
    /\ aqi_done' = TRUE
    /\ UNCHANGED <<aqi_call, aqi_result, avg_data_folder>>
    /\ UNCHANGED <<gasVars, noiseVars, statsVars, driverVars>>

AqiIdle == AqiInit

-----------------------------------------------------------------------------
(* Driver (run_sim.py): timestep selection and the triggers of the main loop. *)
(* The numerical effect of the calls a tick makes is modelled by the solver,  *)
(* noise and statistics parts above; here a tick records which calls it makes *)
(* and when.                                                                  *)

\* math.ceil of a rational
Ceil(r) == -((-r[1]) \div r[2])

\* calculate_optimal_dt
calculate_optimal_dt(cell_len_x_m, cell_len_y_m, cell_len_z_m, diffusion, loss_rate, safety_factor) ==
    LET diff_x == RDiv(diffusion, RInt(cell_len_x_m * cell_len_x_m))
        diff_y == RDiv(diffusion, RInt(cell_len_y_m * cell_len_y_m))
        diff_z == RDiv(diffusion, RInt(cell_len_z_m * cell_len_z_m))
        max_stable_dt == RDiv(RInt(2), RAdd(loss_rate,
                              RMul(RInt(4), RAdd(RAdd(diff_x, diff_y), diff_z))))
    IN  RMul(max_stable_dt, safety_factor)

max3_First(a, b, c) == a

\* max(diffusion_CO, diffusion_nox, diffusion_pmx), max(loss_rate_co, ...)
max3(a, b, c) == RMax(RMax(a, b), c)

\* the dt the driver uses: calculate_optimal_dt of the largest coefficients with
\* safety_factor 0.8, then n = math.ceil(1/dt), dt = 1/n, dt = min(dt, 1)
select_dt(cfg) ==
    LET dt0 == calculate_optimal_dt(cfg.cell_len_xy[1], cfg.cell_len_xy[2], CELL_HEIGHT_Z,
                   max3(cfg.diffusion[1], cfg.diffusion[2], cfg.diffusion[3]),
                   max3(cfg.loss_rate[1], cfg.loss_rate[2], cfg.loss_rate[3]),
                   Rat(8, 10))
        n == Ceil(RDiv(RInt(1), dt0))
    IN  RMin(Rat(1, n), RInt(1))

\* Noise exposure thresholds (in dB)
NOISE_THRESHOLD_LOW == 40
NOISE_THRESHOLD_MID == 50
NOISE_THRESHOLD_HIGH == 60
NOISE_THERESHOLD_VERY_HIGH == 70

NoiseThresholds ==
    {NOISE_THRESHOLD_LOW, NOISE_THRESHOLD_MID, NOISE_THRESHOLD_HIGH, NOISE_THERESHOLD_VERY_HIGH}

\* radius=500 is the default the driver uses
radius_default == 500

reaches_Below(cell, threshold) ==
    ~RLeq(RMul(RInt(4), PI_HI), RDiv(cell.src, RSub(RInt(LinearPower(threshold)), cell.bg)))

\* current_noise_grid >= threshold for a cell of 10 * log10(bg + src / (4 pi)),
\* bg below the threshold: src / (10^(threshold/10) - bg) >= 4 pi.  The
\* sources of the model keep that quotient away from 4 pi by more than the
\* distance of PI_LO and PI_HI.
reaches(cell, threshold) ==
    RLeq(RMul(RInt(4), PI_HI), RDiv(cell.src, RSub(RInt(LinearPower(threshold)), cell.bg)))

\* counter += (current_noise_grid >= threshold).astype(np.int32)
count_exposure(counter, current_noise_grid, threshold) ==
    [c \in Cells2D |-> counter[c] + IF reaches(current_noise_grid[c], threshold) THEN 1 ELSE 0]

\* SIM_TIME = TIME_PER_SCREENSHOT * 24
SIM_TIME == time_per_screenshot * ScreenshotsPerRun

\* diffusion_CO, diffusion_nox, diffusion_pmx and loss_rate_co, loss_rate_nox,
\* loss_rate_pmx: the values of run_sim.py first, then other settings
Coefficients ==
    { [diffusion |-> <<RInt(5), RInt(5), RInt(15)>>, loss_rate |-> <<RInt(0), RInt(0), Rat(1, 1000)>>],
      [diffusion |-> <<RInt(1), Rat(1, 2), Rat(1, 2)>>, loss_rate |-> <<RInt(0), RInt(0), RInt(0)>>],
      [diffusion |-> <<RInt(0), RInt(0), RInt(0)>>, loss_rate |-> <<RInt(0), Rat(1, 1000), RInt(0)>>] }

\* cell_len_x_m, cell_len_y_m of the run (get_cell_size gives about 11 m)
DriverCellLenXY == {<<2, 2>>, <<11, 11>>}

\* TIME_PER_SCREENSHOT [s], scaled down from 3600
DriverScreenshotTimes == {2, 3}

DriverInit ==
    /\ driver_cfg \in [cell_len_xy : DriverCellLenXY, coefficients : Coefficients]
    /\ time_per_screenshot \in DriverScreenshotTimes
    /\ driver_dt = RInt(1)
    /\ pc = "setup"
    /\ sim_time = RInt(0)
    /\ curr_time = RInt(0)
    /\ next_screenshot_time = RInt(0)
    /\ next_noise_update = RInt(0)
    /\ screenshots = << >>
    /\ noise_updates = << >>
    /\ tick_calls = << >>
    /\ noise_exposure = [t \in NoiseThresholds |-> [c \in Cells2D |-> 0]]

\* run_sim.py lines 139-162: dt, the trackers, startSumo(..., dt=dt)
SelectDt ==
    /\ pc = "setup"
    /\ driver_dt' = select_dt([cell_len_xy |-> driver_cfg.cell_len_xy,
                               diffusion |-> driver_cfg.coefficients.diffusion,
                               loss_rate |-> driver_cfg.coefficients.loss_rate])
    /\ next_screenshot_time' = RInt(time_per_screenshot)
    /\ next_noise_update' = RInt(1)
    /\ pc' = "loop"
    /\ UNCHANGED <<driver_cfg, sim_time, curr_time, screenshots, noise_updates, tick_calls,
                   noise_exposure, gasVars, noiseVars, statsVars, aqiVars>>

\* if next_noise_update <= curr_time
noise_due(next, now) == RLeq(next, now)

screenshot_due_Strict(next, now) == RLess(next, now)

\* if next_screenshot_time <= curr_time
screenshot_due(next, now) == RLeq(next, now)

calls_of_tick_SnapshotFirst(noise, shot) ==
    (IF shot THEN <<"process_noise", "save_all_data">> ELSE << >>)
    \o <<"simulationStep", "process_gas_step co", "process_gas_step nox", "process_gas_step pmx">>
    \o (IF noise THEN <<"process_noise">> ELSE << >>)

\* the calls of one iteration of the main loop, in program order
calls_of_tick(noise, shot) ==
    <<"simulationStep", "process_gas_step co", "process_gas_step nox", "process_gas_step pmx">>
    \o (IF noise THEN <<"process_noise">> ELSE << >>)
    \o (IF shot THEN <<"process_noise", "save_all_data">> ELSE << >>)

PM2_default_mgm3 == Rat(6, 1000)

\* the level [dB] written for a cell of the noise grid: 10 * log10 of its
\* power, exact for a cell at the background; a cell with source power is
\* written at the 10 dB step below its level
noise_level(cell) ==
    IF cell.src = RInt(0) THEN RInt(background_dB_default)
    ELSE RInt(CHOOSE l \in {background_dB_default} \cup NoiseThresholds :
                /\ l > background_dB_default => reaches(cell, l)
                /\ \A h \in NoiseThresholds : h > l => ~reaches(cell, h))

\* save_all_data(..., identifier=f"{curr_time}"): the slice of each gas field
\* at z index GAS_HEIGHT, converted from mg/cell to mg/m^3, as
\* data_{co,nox,pmx}_{GAS_HEIGHT}_{identifier}.csv and the noise grid as
\* data_noise_{identifier}.csv
save_all_data(co_vector_global, nox_vector_global, pmx_vector_global, cell_len_x_m, cell_len_y_m, cell_len_z_m, noise_vector, identifier) ==
    LET slice(field) ==
            [c \in Cells2D |->
                RDiv(field[<<c[1], c[2], GAS_HEIGHT>>],
                     RInt(cell_len_x_m * cell_len_y_m * cell_len_z_m))]
    IN  << [parts |-> 4, key |-> "data_co", height |-> GAS_HEIGHT, timestamp |-> identifier,
            data |-> slice(co_vector_global)],
           [parts |-> 4, key |-> "data_nox", height |-> GAS_HEIGHT, timestamp |-> identifier,
            data |-> slice(nox_vector_global)],
           [parts |-> 4, key |-> "data_pmx", height |-> GAS_HEIGHT, timestamp |-> identifier,
            data |-> slice(pmx_vector_global)],
           [parts |-> 3, key |-> "data_noise", height |-> 0, timestamp |-> identifier,
            data |-> [c \in Cells2D |-> noise_level(noise_vector[c])]] >>

\* np.zeros((GRID_DIM_X, GRID_DIM_Y, GRID_DIM_Z)) + default * factor: a field at
\* its background level, which is where it stays while no vehicle emits
BackgroundField(default_mgm3) ==
    [c \in Cells |->
        RMul(default_mgm3,
             RInt(driver_cfg.cell_len_xy[1] * driver_cfg.cell_len_xy[2] * CELL_HEIGHT_Z))]

\* one iteration of "while traci.simulation.getTime() <= SIM_TIME" with the
\* vehicles of the tick at the positions and noise levels of samples; they
\* emit no gas, the three fields are at their background levels
TickWith(samples) ==
    /\ pc = "loop"
    /\ RLeq(sim_time, RInt(SIM_TIME))
    /\ curr_time' = sim_time
    /\ sim_time' = RAdd(sim_time, driver_dt)                    \* traci.simulationStep()
    /\ LET noise == noise_due(next_noise_update, sim_time)
           shot == screenshot_due(next_screenshot_time, sim_time)
       IN  /\ next_noise_update' = IF noise THEN RAdd(next_noise_update, RInt(1))
                                   ELSE next_noise_update
           /\ noise_updates' = IF noise THEN Append(noise_updates, sim_time) ELSE noise_updates
           /\ next_screenshot_time' = IF shot THEN RAdd(next_screenshot_time, RInt(time_per_screenshot))
                                      ELSE next_screenshot_time
           /\ screenshots' = IF shot THEN Append(screenshots, sim_time) ELSE screenshots
           /\ tick_calls' = calls_of_tick(noise, shot)
           /\ LET current_noise_grid ==
                      process_noise([i \in 1 .. Len(samples) |-> samples[i].x],
                                    [i \in 1 .. Len(samples) |-> samples[i].y],
                                    [i \in 1 .. Len(samples) |-> samples[i].level],
                                    driver_cfg.cell_len_xy[1], driver_cfg.cell_len_xy[2],
                                    radius_default, background_dB_default)
              IN  /\ IF noise
                     THEN /\ noise_call' = samples
                          /\ linear_matrix' = current_noise_grid
                          /\ noise_ran' = TRUE
                          /\ noise_exposure' =
                                 [t \in NoiseThresholds |->
                                     count_exposure(noise_exposure[t], current_noise_grid, t)]
                     ELSE UNCHANGED <<noise_call, linear_matrix, noise_ran, noise_exposure>>
                  /\ data_folder' =
                         IF shot
                         THEN data_folder \o
                                save_all_data(BackgroundField(CO_default_mgm3),
                                              BackgroundField(NO2_default_mgm3),
                                              BackgroundField(PM2_default_mgm3),
                                              driver_cfg.cell_len_xy[1], driver_cfg.cell_len_xy[2],
                                              CELL_HEIGHT_Z, current_noise_grid,
                                              sim_time[1] \div sim_time[2])
                         ELSE data_folder
    /\ UNCHANGED <<driver_cfg, driver_dt, pc, gasVars, noise_cfg, stats_out, stats_done,
                   time_per_screenshot, aqiVars>>

\* a tick with no vehicle on the road
Tick ==
    /\ pc = "loop"
    /\ TickWith(<< >>)

\* most per-second noise updates followed with vehicles on the road
MaxExposureUpdates == 4

\* one vehicle in the cell at the grid's lower left corner
TickSamples ==
    {<< >>} \cup { << [x |-> GRID_LEFT, y |-> GRID_BOTTOM, level |-> l] >> : l \in {50, 70, 90} }

NoisyTick ==
    /\ Len(noise_updates) < MaxExposureUpdates
    /\ \E samples \in TickSamples : TickWith(samples)

\* the loop condition fails: stopSumo()
EndLoop ==
    /\ pc = "loop"
    /\ ~RLeq(sim_time, RInt(SIM_TIME))
    /\ pc' = "ended"
    /\ UNCHANGED <<driver_cfg, driver_dt, sim_time, curr_time, next_screenshot_time,
                   next_noise_update, screenshots, noise_updates, tick_calls, noise_exposure,
                   gasVars, noiseVars, statsVars, aqiVars>>

\* the window averages calculate_moving_average_for_window writes for the data
\* keys of out, data_{pollutant}_{window}_avg_{label}{start_hour}.csv, by
\* <<pollutant, window, start_hour>>
window_average_files(out) ==
    LET pollutant_of(key) == CHOOSE p \in {"co", "nox", "pmx", "noise"} : key = "data_" \o p
        names == UNION { { <<pollutant_of(key), w, h>> : h \in DOMAIN out[key].moving[w] } :
                           key \in DOMAIN out, w \in WindowNames }
    IN  [f \in names |-> out["data_" \o f[1]].moving[f[2]][f[3]]]

\* post_processing_wrapper, first call: process_data_statistics(data_folder, ...)
PostAggregate ==
    /\ pc = "ended"
    /\ stats_out' = process_data_statistics(data_folder)
    /\ stats_done' = TRUE
    /\ avg_data_folder' = window_average_files(stats_out')
    /\ pc' = "aggregated"
    /\ UNCHANGED <<driver_cfg, driver_dt, sim_time, curr_time, next_screenshot_time,
                   next_noise_update, screenshots, noise_updates, tick_calls, noise_exposure,
                   time_per_screenshot, data_folder, gasVars, noiseVars,
                   aqi_call, aqi_result, final_results, aqih_calls, aqi_done>>

\* post_processing_wrapper, second call: process_gas_to_aqi(...)
PostConvert ==
    /\ pc = "aggregated"
    /\ LET done == process_gas_to_aqi(avg_data_folder)
       IN  /\ final_results' = done.saved
           /\ aqih_calls' = done.calls
    /\ aqi_done' = TRUE
    /\ pc' = "done"
    /\ UNCHANGED <<driver_cfg, driver_dt, sim_time, curr_time, next_screenshot_time,
                   next_noise_update, screenshots, noise_updates, tick_calls, noise_exposure,
                   statsVars, gasVars, noiseVars, aqi_call, aqi_result, avg_data_folder>>

\* ---- a run of the default configuration, followed from snapshot to snapshot

\* TIME_PER_SCREENSHOT of config.py
TIME_PER_SCREENSHOT_default == 3600

\* times the background a snapshot's fields reach in the cells above (0, 0)
TrafficLevels == {1, 2}

\* cell (0, 0) of the last CO snapshot, in units of the background
LastLevel ==
    IF data_folder = << >> THEN 1
    ELSE LET last == RDiv(data_folder[Len(data_folder) - 3].data[<<0, 0>>], CO_default_mgm3)
         IN  last[1] \div last[2]

\* a field at level times its background in the cells above (0, 0)
FieldAt(default_mgm3, level) ==
    [c \in Cells |->
        IF c[1] = 0 /\ c[2] = 0 THEN RMul(RInt(level), BackgroundField(default_mgm3)[c])
        ELSE BackgroundField(default_mgm3)[c]]

\* the driver of the default configuration on entering the main loop
PipelineInit ==
    /\ driver_cfg = [cell_len_xy |-> <<11, 11>>,
                     coefficients |-> [diffusion |-> <<RInt(5), RInt(5), RInt(15)>>,
                                       loss_rate |-> <<RInt(0), RInt(0), Rat(1, 1000)>>]]
    /\ time_per_screenshot = TIME_PER_SCREENSHOT_default
    /\ driver_dt = select_dt([cell_len_xy |-> driver_cfg.cell_len_xy,
                              diffusion |-> driver_cfg.coefficients.diffusion,
                              loss_rate |-> driver_cfg.coefficients.loss_rate])
    /\ pc = "loop"
    /\ sim_time = RInt(0)
    /\ curr_time = RInt(0)
    /\ next_screenshot_time = RInt(time_per_screenshot)
    /\ next_noise_update = RInt(1)
    /\ screenshots = << >>
    /\ noise_updates = << >>
    /\ tick_calls = << >>
    /\ noise_exposure = [t \in NoiseThresholds |-> [c \in Cells2D |-> 0]]

\* The ticks up to and including the next one that writes a snapshot: by the
\* triggers of TickWith that is the tick with curr_time = next_screenshot_time.
\* The fields have some level by then; the per-second noise updates of the
\* stretch are not followed.
SnapshotTick ==
    /\ pc = "loop"
    /\ RLeq(next_screenshot_time, RInt(SIM_TIME))
    /\ curr_time' = next_screenshot_time
    /\ sim_time' = RAdd(next_screenshot_time, driver_dt)
    /\ next_noise_update' = RAdd(next_screenshot_time, RInt(1))
    /\ next_screenshot_time' = RAdd(next_screenshot_time, RInt(time_per_screenshot))
    /\ screenshots' = Append(screenshots, next_screenshot_time)
    /\ tick_calls' = calls_of_tick(TRUE, TRUE)
    /\ \E level \in {l \in TrafficLevels : l >= LastLevel} :
          data_folder' = data_folder \o
              save_all_data(FieldAt(CO_default_mgm3, level), FieldAt(NO2_default_mgm3, level),
                            FieldAt(PM2_default_mgm3, level),
                            driver_cfg.cell_len_xy[1], driver_cfg.cell_len_xy[2], CELL_HEIGHT_Z,
                            process_noise(<< >>, << >>, << >>, driver_cfg.cell_len_xy[1],
                                          driver_cfg.cell_len_xy[2], radius_default,
                                          background_dB_default),
                            next_screenshot_time[1] \div next_screenshot_time[2])
    /\ UNCHANGED <<driver_cfg, driver_dt, pc, noise_updates, noise_exposure, gasVars, noiseVars,
                   stats_out, stats_done, time_per_screenshot, aqiVars>>

DriverIdle ==
    /\ driver_cfg = [cell_len_xy |-> <<1, 1>>,
                     coefficients |-> [diffusion |-> <<RInt(0), RInt(0), RInt(0)>>,
                                       loss_rate |-> <<RInt(0), RInt(0), RInt(0)>>]]
    /\ driver_dt = RInt(1)
    /\ pc = "setup"
    /\ sim_time = RInt(0)
    /\ curr_time = RInt(0)
    /\ next_screenshot_time = RInt(0)
    /\ next_noise_update = RInt(0)
    /\ screenshots = << >>
    /\ noise_updates = << >>
    /\ tick_calls = << >>
    /\ noise_exposure = [t \in NoiseThresholds |-> [c \in Cells2D |-> 0]]

-----------------------------------------------------------------------------
(* End-to-end scenario of the solver: one source injects once, then the field *)
(* is stepped repeatedly without sources; diffusion 1 m^2/s, loss_rate 0,     *)
(* cells of equal length in x, y and z, dt from the stability formula.        *)

ScenarioSteps == 3

\* the source: a ground cell at the corner or in the middle of the grid
ScenarioSources ==
    { [x |-> x, y |-> y, e |-> RInt(e)] :
        x \in {GRID_LEFT, (GRID_LEFT + GRID_RIGHT) \div 2},
        y \in {GRID_BOTTOM, (GRID_BOTTOM + GRID_TOP) \div 2},
        e \in {100, 50, 10} }

ScenarioDefaults == {CO_default_mgm3, RInt(0), RInt(1)}

ScenarioInit ==
    /\ \E default_value \in ScenarioDefaults :
         gas_cfg = [cell_len_xy |-> <<CELL_HEIGHT_Z, CELL_HEIGHT_Z>>,
                    default_value |-> default_value,
                    diffusion |-> RInt(1),
                    loss_rate |-> RInt(0),
                    dt |-> select_dt([cell_len_xy |-> <<CELL_HEIGHT_Z, CELL_HEIGHT_Z>>,
                                      diffusion |-> <<RInt(1), RInt(1), RInt(1)>>,
                                      loss_rate |-> <<RInt(0), RInt(0), RInt(0)>>])]
    /\ old_matrix = InitialField(gas_cfg)
    /\ padded_concentration = [p \in PaddedCells |-> RInt(0)]
    /\ gas_call = << >>
    /\ gas_steps = 0
    /\ cells_pending = {}

ScenarioStep ==
    /\ gas_steps < ScenarioSteps
    /\ IF gas_steps = 0
       THEN \E s \in ScenarioSources : CallGasStep(<<s>>)
       ELSE CallGasStep(<< >>)
    /\ UNCHANGED <<gas_cfg, noiseVars, statsVars, aqiVars, driverVars>>

-----------------------------------------------------------------------------
(* Specifications *)

\* the diffusion solver, called once per tick by the driver
InitGas == GasInit /\ NoiseIdle /\ StatsIdle /\ AqiIdle /\ DriverIdle
NextGas == GasStep
SpecGas == InitGas /\ [][NextGas]_vars

\* the noise model
InitNoise == NoiseInit /\ GasIdle /\ StatsIdle /\ AqiIdle /\ DriverIdle
NextNoise == NoiseStep
SpecNoise == InitNoise /\ [][NextNoise]_vars

\* process_gas_step and process_noise, each called on its own
InitSources ==
    /\ (GasInit /\ NoiseIdle) \/ (NoiseInit /\ GasIdle)
    /\ StatsIdle /\ AqiIdle /\ DriverIdle
GasCall == ~noise_ran /\ GasStep
NoiseCall == gas_steps = 0 /\ NoiseStep
NextSources == GasCall \/ NoiseCall
SpecSources == InitSources /\ [][NextSources]_vars

\* a single vehicle at, just outside and just inside the borders of the grid
EdgePositions ==
    {GRID_LEFT - 1, GRID_LEFT, GRID_RIGHT - 1, GRID_RIGHT}
        \X {GRID_BOTTOM - 1, GRID_BOTTOM, GRID_TOP - 1, GRID_TOP}
EdgeGasCall ==
    /\ ~noise_ran
    /\ gas_steps < MaxSteps
    /\ \E p \in EdgePositions : CallGasStep(<< [x |-> p[1], y |-> p[2], e |-> RInt(1)] >>)
    /\ UNCHANGED <<gas_cfg, noiseVars, statsVars, aqiVars, driverVars>>
EdgeNoiseCall ==
    /\ gas_steps = 0
    /\ \E p \in EdgePositions :
         /\ noise_call' = << [x |-> p[1], y |-> p[2], level |-> 50] >>
         /\ linear_matrix' = process_noise(<<p[1]>>, <<p[2]>>, <<50>>,
                                 noise_cfg.cell_len_xy[1], noise_cfg.cell_len_xy[2],
                                 noise_cfg.radius, noise_cfg.background_dB)
    /\ noise_ran' = TRUE
    /\ UNCHANGED <<noise_cfg, gasVars, statsVars, aqiVars, driverVars>>
NextEdge == EdgeGasCall \/ EdgeNoiseCall
SpecEdge == InitSources /\ [][NextEdge]_vars

\* a run's snapshots and the aggregator
InitStats == StatsInit /\ GasIdle /\ NoiseIdle /\ AqiIdle /\ DriverIdle
NextStats == SaveSnapshot \/ ProcessStatistics
SpecStats == InitStats /\ [][NextStats]_vars

\* the aggregator on a folder listed in any order
InitListing == StatsIdle /\ GasIdle /\ NoiseIdle /\ AqiIdle /\ DriverIdle
NextListing == ListFile \/ ProcessStatistics
SpecListing == InitListing /\ [][NextListing]_vars

\* the converter's two scoring functions
InitAqi == AqiInit /\ GasIdle /\ NoiseIdle /\ StatsIdle /\ DriverIdle
NextAqi == ScoreUS \/ ScoreAQIH
SpecAqi == InitAqi /\ [][NextAqi]_vars

\* the end-to-end scenario of the solver
\* a solver call with its cell updates in any order
InitCells == GasInit /\ NoiseIdle /\ StatsIdle /\ AqiIdle /\ DriverIdle
NextCells == BeginGasStep \/ UpdateCell
SpecCells == InitCells /\ [][NextCells]_vars

\* solver calls for two pollutant fields sharing the padded array
InitBuffer == GasInit /\ NoiseIdle /\ StatsIdle /\ AqiIdle /\ DriverIdle
NextBuffer == GasStep \/ NoxGasStep
SpecBuffer == InitBuffer /\ [][NextBuffer]_vars

InitScenario == ScenarioInit /\ NoiseIdle /\ StatsIdle /\ AqiIdle /\ DriverIdle
NextScenario == ScenarioStep
SpecScenario == InitScenario /\ [][NextScenario]_vars

\* the driver: timestep selection, then the main loop
\* the converter: direct scoring calls, or the conversion of a folder
InitConvert == AqiInit /\ GasIdle /\ NoiseIdle /\ StatsIdle /\ DriverIdle
DirectAQIH == DOMAIN avg_data_folder = {} /\ ~aqi_done /\ ScoreAQIH
AverageWritten == aqi_call.scale = "none" /\ WriteAverage
FolderConverted == aqi_call.scale = "none" /\ ProcessGasToAqi
NextConvert == DirectAQIH \/ AverageWritten \/ FolderConverted
SpecConvert == InitConvert /\ [][NextConvert]_vars

InitDriver ==
    /\ DriverInit
    /\ data_folder = << >> /\ stats_out = << >> /\ stats_done = FALSE
    /\ GasIdle /\ NoiseIdle /\ AqiIdle
NextDriver == SelectDt \/ Tick \/ EndLoop \/ PostAggregate \/ PostConvert
SpecDriver == InitDriver /\ [][NextDriver]_vars

\* a run of the default configuration and its post-processing
InitPipeline ==
    /\ PipelineInit
    /\ data_folder = << >> /\ stats_out = << >> /\ stats_done = FALSE
    /\ GasIdle /\ NoiseIdle /\ AqiIdle
NextPipeline == SnapshotTick \/ EndLoop \/ PostAggregate \/ PostConvert
SpecPipeline == InitPipeline /\ [][NextPipeline]_vars

\* the first seconds of a run with vehicles on the road
NextExposure == SelectDt \/ NoisyTick
SpecExposure == InitDriver /\ [][NextExposure]_vars

-----------------------------------------------------------------------------
(* Properties of the diffusion solver *)

FloorMass == RMul(gas_cfg.default_value,
                  RInt(gas_cfg.cell_len_xy[1] * gas_cfg.cell_len_xy[2] * CELL_HEIGHT_Z))

\* C1: after every process_gas_step call, whatever the sources, dt, diffusion
\* and loss_rate, every cell of the field is >= default_value * V.
C1_FloorInvariant ==
    gas_steps > 0 => \A c \in Cells : RLeq(FloorMass, old_matrix[c])

\* two consecutive calls with decay, the last one without sources: the decayed
\* cells were raised back to the floor
C1_Witness ==
    /\ gas_steps = 2
    /\ gas_cfg.loss_rate # RInt(0)
    /\ gas_call = << >>
    /\ \E c \in Cells : old_matrix[c] = FloorMass

\* the mass the samples of one call inject into cell c
RECURSIVE InjectedMass(_, _)
InjectedMass(samples, c) ==
    IF samples = << >> THEN RInt(0)
    ELSE LET s == Head(samples)
             here == c = <<x_index(s.x), y_index(s.y), 0>>
         IN  RAdd(IF here THEN s.e ELSE RInt(0), InjectedMass(Tail(samples), c))

\* C2: a call with diffusion = 0 and loss_rate = 0 returns the input field plus
\* the injected source masses; no cell changes otherwise.
C2_OnlyInjection ==
    [][ (gas_steps' = gas_steps + 1 /\ gas_cfg.diffusion = RInt(0) /\ gas_cfg.loss_rate = RInt(0))
        => old_matrix' = [c \in Cells |-> RAdd(old_matrix[c], InjectedMass(gas_call', c))] ]_vars

\* a call without diffusion and decay that injected mass into the grid
C2_Witness ==
    /\ gas_steps > 0
    /\ gas_cfg.diffusion = RInt(0)
    /\ gas_cfg.loss_rate = RInt(0)
    /\ \E c \in Cells : InjectedMass(gas_call, c) # RInt(0) /\ RLess(FloorMass, old_matrix[c])
    /\ \E c \in Cells : old_matrix[c] = FloorMass

\* the field before the update loop of the call in progress or just ended, as
\* the padded copy holds it
PreStepField ==
    [c \in Cells |->
        RMul(padded_concentration[<<c[1] + 1, c[2] + 1, c[3] + 1>>],
             RInt(gas_cfg.cell_len_xy[1] * gas_cfg.cell_len_xy[2] * CELL_HEIGHT_Z))]

\* the field the update loop gives in the order of the code
InOrderField ==
    update_loop(PreStepField, padded_concentration, LoopOrder,
                RInt(gas_cfg.cell_len_xy[1] * gas_cfg.cell_len_xy[1]),
                RInt(gas_cfg.cell_len_xy[2] * gas_cfg.cell_len_xy[2]),
                RInt(CELL_HEIGHT_Z * CELL_HEIGHT_Z),
                gas_cfg.diffusion, gas_cfg.loss_rate, gas_cfg.default_value, gas_cfg.dt,
                RInt(gas_cfg.cell_len_xy[1] * gas_cfg.cell_len_xy[2] * CELL_HEIGHT_Z))

\* C22: within one process_gas_step call the cell updates give the same field
\* in any order: whatever cells have been updated so far, each of them holds the
\* value the loop gives it in the order of the code, and every other cell still
\* holds its pre-step value.
C22_UpdateOrderIndependent ==
    (cells_pending # {} \/ gas_steps > 0) =>
        LET before == PreStepField
            after == InOrderField
        IN  \A c \in Cells :
                old_matrix[c] = IF c \in cells_pending THEN before[c] ELSE after[c]

\* a call with a source and diffusion in which two cells of the ground layer
\* have been updated, out of the order of the code, and all others not yet
C22_Witness ==
    /\ gas_cfg.diffusion = RInt(1)
    /\ Len(gas_call) > 0
    /\ cells_pending = Cells \ {<<GRID_DIM_X - 1, GRID_DIM_Y - 1, 0>>, <<0, 0, 0>>}
    /\ old_matrix[<<0, 0, 0>>] # PreStepField[<<0, 0, 0>>]

\* C23: when the cell updates of a process_gas_step call begin, every padding
\* cell of the bottom face (padded z index 0) equals its neighbour at padded z
\* index 1, and every padding cell of the other five faces equals
\* default_value, in every call.  (The padded array is not written after that,
\* so it is read here as the call leaves it.)
C23_BottomMirroredOthersDefault ==
    gas_steps > 0 =>
        \A p \in PaddedCells :
            /\ p[3] = 0 => padded_concentration[p] = padded_concentration[<<p[1], p[2], 1>>]
            /\ (p[3] # 0 /\ (p[1] \in {0, GRID_DIM_X + 1} \/ p[2] \in {0, GRID_DIM_Y + 1}
                                \/ p[3] = GRID_DIM_Z + 1))
                  => padded_concentration[p] = gas_cfg.default_value

\* the second call of a run, with a source in cell (0, 0): the padding below
\* that cell holds the cell's concentration, the padding beside it the default
C23_Witness ==
    /\ gas_steps = 2
    /\ padded_concentration[<<1, 1, 0>>] = padded_concentration[<<1, 1, 1>>]
    /\ padded_concentration[<<1, 1, 0>>] # gas_cfg.default_value
    /\ padded_concentration[<<0, 1, 1>>] = gas_cfg.default_value
    /\ padded_concentration[<<0, 1, 0>>] = gas_cfg.default_value

\* the result of a call on field m with the padded array as np.zeros left it
FreshBufferResult(m, samples) ==
    process_gas_step(m, [p \in PaddedCells |-> RInt(0)],
        [i \in 1 .. Len(samples) |-> samples[i].x],
        [i \in 1 .. Len(samples) |-> samples[i].y],
        [i \in 1 .. Len(samples) |-> samples[i].e],
        gas_cfg.cell_len_xy[1], gas_cfg.cell_len_xy[2], CELL_HEIGHT_Z,
        gas_cfg.default_value, gas_cfg.diffusion, gas_cfg.loss_rate, gas_cfg.dt).matrix

\* C28: the result of a process_gas_step call does not depend on what earlier
\* calls, for this or another pollutant field with another default value, left
\* in the shared padded array: it is the result the call gives with a fresh
\* array.
C28_BufferContentIrrelevant ==
    [][ gas_steps' = gas_steps + 1 => old_matrix' = FreshBufferResult(old_matrix, gas_call') ]_vars

\* after a first call for the field, the padded array as a NOx call with a
\* source in cell (0, 0) left it, with the NOx default on its faces; the next
\* call for the field starts from it
C28_Witness ==
    /\ gas_steps = 1
    /\ gas_cfg.diffusion = RInt(1)
    /\ gas_cfg.default_value # NO2_default_mgm3
    /\ padded_concentration[<<0, 1, 1>>] = NO2_default_mgm3
    /\ padded_concentration[<<1, 1, GRID_DIM_Z + 1>>] = NO2_default_mgm3
    /\ RLess(NO2_default_mgm3, padded_concentration[<<1, 1, 0>>])

\* the world position of source s lies in the area the grid covers
InArea(s) ==
    /\ GRID_LEFT <= s.x /\ s.x < GRID_RIGHT
    /\ GRID_BOTTOM <= s.y /\ s.y < GRID_TOP

\* C27: a call whose only source lies outside [GRID_LEFT, GRID_RIGHT) x
\* [GRID_BOTTOM, GRID_TOP) returns what the call without any source returns,
\* also when the source is less than one cell width left of GRID_LEFT or
\* below GRID_BOTTOM.
C27_OutsideAreaIgnored ==
    [][ /\ (gas_steps' = gas_steps + 1 /\ Len(gas_call') = 1 /\ ~InArea(gas_call'[1]))
            => old_matrix' = process_gas_step(old_matrix, padded_concentration, << >>, << >>, << >>,
                                 gas_cfg.cell_len_xy[1], gas_cfg.cell_len_xy[2], CELL_HEIGHT_Z,
                                 gas_cfg.default_value, gas_cfg.diffusion, gas_cfg.loss_rate,
                                 gas_cfg.dt).matrix
        /\ (noise_ran' /\ Len(noise_call') = 1 /\ ~InArea(noise_call'[1]))
            => linear_matrix' = process_noise(<< >>, << >>, << >>,
                                    noise_cfg.cell_len_xy[1], noise_cfg.cell_len_xy[2],
                                    noise_cfg.radius, noise_cfg.background_dB) ]_vars

-----------------------------------------------------------------------------
(* Properties of the noise model *)

InGrid(s) ==
    /\ 0 <= x_index(s.x) /\ x_index(s.x) < GRID_DIM_X
    /\ 0 <= y_index(s.y) /\ y_index(s.y) < GRID_DIM_Y

\* squared distance [m^2] of cell c from the cell of source s
Dist2(c, s) ==
    dist_squared_m(c[1], c[2], x_index(s.x), y_index(s.y),
                   noise_cfg.cell_len_xy[1], noise_cfg.cell_len_xy[2])

SingleInGridSource == noise_ran /\ Len(noise_call) = 1 /\ InGrid(noise_call[1])

SourceCell == <<x_index(noise_call[1].x), y_index(noise_call[1].y)>>

\* What 10 * log10(bg + src / (4 pi)) = dB requires, pi being known only to lie
\* between PI_LO and PI_HI.
LevelIs(cell, dB) ==
    LET P == RInt(LinearPower(dB))
    IN  IF cell.src = RInt(0) THEN cell.bg = P
        ELSE /\ RLess(RAdd(cell.bg, RDiv(cell.src, RMul(RInt(4), PI_HI))), P)
             /\ RLess(P, RAdd(cell.bg, RDiv(cell.src, RMul(RInt(4), PI_LO))))

\* C9 as stated: with a single source, the source's cell gets the level
\* max(source_level, background_dB).
C9_LevelIsMax ==
    SingleInGridSource =>
        LevelIs(linear_matrix[SourceCell], Max(noise_call[1].level, noise_cfg.background_dB))

\* C9 amended: with a single in-grid source, the source's cell holds the linear
\* power 10^(background_dB/10) + 10^(max(source_level, background_dB)/10) / (4 pi).
C9_SourceCellPower ==
    SingleInGridSource =>
        linear_matrix[SourceCell] =
            [bg  |-> RInt(LinearPower(noise_cfg.background_dB)),
             src |-> RInt(LinearPower(Max(noise_call[1].level, noise_cfg.background_dB)))]

\* a single source quieter than the background, in the grid
C9_Witness ==
    /\ SingleInGridSource
    /\ noise_call[1].level < noise_cfg.background_dB
    /\ linear_matrix[SourceCell].src = RInt(LinearPower(noise_cfg.background_dB))

\* what the sources within radius of cell c add to it, times 4 pi
RECURSIVE ExpectedSrc(_, _)
ExpectedSrc(samples, c) ==
    IF samples = << >> THEN RInt(0)
    ELSE LET s == Head(samples)
             reach == InGrid(s) /\ Dist2(c, s) <= noise_cfg.radius * noise_cfg.radius
             part == linear_contribution(Max(s.level, noise_cfg.background_dB), Dist2(c, s))
         IN  RAdd(IF reach THEN part ELSE RInt(0), ExpectedSrc(Tail(samples), c))

\* C10: an in-grid source adds linear power to exactly the cells within radius
\* of its cell: a cell farther away gets nothing from it, and no cell within
\* radius is left out by the bounding box.
C10_ExactlyWithinRadius ==
    noise_ran => \A c \in Cells2D : linear_matrix[c].src = ExpectedSrc(noise_call, c)

\* one source; a cell within radius got power, a cell of the bounding box that
\* is farther than radius got none
C10_Witness ==
    /\ SingleInGridSource
    /\ \E c \in Cells2D :
          /\ c # SourceCell
          /\ Dist2(c, noise_call[1]) <= noise_cfg.radius * noise_cfg.radius
          /\ RLess(RInt(0), linear_matrix[c].src)
    /\ \E c \in Cells2D :
          /\ Abs(c[1] - SourceCell[1]) <= noise_cfg.radius \div noise_cfg.cell_len_xy[1]
          /\ Abs(c[2] - SourceCell[2]) <= noise_cfg.radius \div noise_cfg.cell_len_xy[2]
          /\ Dist2(c, noise_call[1]) > noise_cfg.radius * noise_cfg.radius
          /\ linear_matrix[c].src = RInt(0)

\* the sources of a call whose computed grid index lies in the grid
RECURSIVE InGridOnly(_)
InGridOnly(samples) ==
    IF samples = << >> THEN << >>
    ELSE IF InGrid(Head(samples)) THEN <<Head(samples)>> \o InGridOnly(Tail(samples))
    ELSE InGridOnly(Tail(samples))

GasResultFor(m, samples) ==
    process_gas_step(m, padded_concentration,
        [i \in 1 .. Len(samples) |-> samples[i].x],
        [i \in 1 .. Len(samples) |-> samples[i].y],
        [i \in 1 .. Len(samples) |-> samples[i].e],
        gas_cfg.cell_len_xy[1], gas_cfg.cell_len_xy[2], CELL_HEIGHT_Z,
        gas_cfg.default_value, gas_cfg.diffusion, gas_cfg.loss_rate, gas_cfg.dt).matrix

NoiseResultFor(samples) ==
    process_noise(
        [i \in 1 .. Len(samples) |-> samples[i].x],
        [i \in 1 .. Len(samples) |-> samples[i].y],
        [i \in 1 .. Len(samples) |-> samples[i].level],
        noise_cfg.cell_len_xy[1], noise_cfg.cell_len_xy[2],
        noise_cfg.radius, noise_cfg.background_dB)

\* C11: a source whose computed grid index lies outside the grid is dropped:
\* process_gas_step and process_noise return what they return for the input
\* lists without that source.
C11_OutOfGridDropped ==
    [][ /\ gas_steps' = gas_steps + 1 => old_matrix' = GasResultFor(old_matrix, InGridOnly(gas_call'))
        /\ noise_ran' => linear_matrix' = NoiseResultFor(InGridOnly(noise_call')) ]_vars

\* a process_noise call with a source inside the grid and one outside it, the
\* outside one within radius of grid cells by its index
C11_Witness ==
    /\ noise_ran
    /\ Len(noise_call) = 2
    /\ \E i, j \in 1 .. 2 :
          /\ InGrid(noise_call[i])
          /\ ~InGrid(noise_call[j])
          /\ x_index(noise_call[j].x) = GRID_DIM_X
    /\ \E c \in Cells2D : RLess(RInt(0), linear_matrix[c].src)

\* the field after the injection of a call with the given samples
InjectedField(m, samples) ==
    inject(m, [i \in 1 .. Len(samples) |-> samples[i].x],
              [i \in 1 .. Len(samples) |-> samples[i].y],
              [i \in 1 .. Len(samples) |-> samples[i].e])

\* the in-range sources of a call that map to the column (x, y)
SourcesAt(samples, x, y) ==
    {i \in 1 .. Len(samples) : x_index(samples[i].x) = x /\ y_index(samples[i].y) = y}

RECURSIVE MassOf(_, _)
MassOf(samples, I) ==
    IF I = {} THEN RInt(0)
    ELSE LET i == CHOOSE j \in I : TRUE
         IN  RAdd(samples[i].e, MassOf(samples, I \ {i}))

\* C12: the injection of process_gas_step adds each in-range source's mass to
\* exactly the cell (x_index, y_index, 0): sources of the same cell add up, an
\* empty list injects nothing, no cell with z > 0 and no other cell of layer
\* z = 0 changes.
C12_InjectionIntoGroundCell ==
    [][ gas_steps' = gas_steps + 1 =>
          LET injected == InjectedField(old_matrix, gas_call')
          IN  \A c \in Cells :
                 injected[c] = IF c[3] = 0
                               THEN RAdd(old_matrix[c],
                                         MassOf(gas_call', SourcesAt(gas_call', c[1], c[2])))
                               ELSE old_matrix[c] ]_vars

\* a call with two sources in the same cell, without diffusion and decay: the
\* cell holds both masses, the cell above it none
C12_Witness ==
    /\ gas_steps = 1
    /\ gas_cfg.diffusion = RInt(0) /\ gas_cfg.loss_rate = RInt(0)
    /\ Len(gas_call) = 2
    /\ \E c \in Cells :
          /\ c[3] = 0
          /\ SourcesAt(gas_call, c[1], c[2]) = {1, 2}
          /\ old_matrix[c] = RAdd(FloorMass, RAdd(gas_call[1].e, gas_call[2].e))
          /\ old_matrix[<<c[1], c[2], 1>>] = FloorMass

RECURSIVE SumTo(_, _)
SumTo(f, n) == IF n = 0 THEN RInt(0) ELSE RAdd(SumTo(f, n - 1), f[n - 1])

\* the sum of the field over all cells, axis by axis
TotalMass(m) ==
    SumTo([x \in 0 .. GRID_DIM_X - 1 |->
             SumTo([y \in 0 .. GRID_DIM_Y - 1 |->
                      SumTo([z \in 0 .. GRID_DIM_Z - 1 |-> m[<<x, y, z>>]], GRID_DIM_Z)],
                   GRID_DIM_Y)],
          GRID_DIM_X)

\* the mass the sources of a call inject into the grid
InjectedTotal(samples) == MassOf(samples, {i \in 1 .. Len(samples) : InGrid(samples[i])})

\* C16 as stated: in the end-to-end scenario, after every process_gas_step call
\* the sum of the field equals the initial total plus the injected mass, and
\* every cell is >= the background floor.
C16_ScenarioMassConserved ==
    [][ gas_steps' = gas_steps + 1 =>
          /\ TotalMass(old_matrix') = RAdd(TotalMass(old_matrix), InjectedTotal(gas_call'))
          /\ \A c \in Cells : RLeq(FloorMass, old_matrix'[c]) ]_vars

\* C16 amended: in the end-to-end scenario the total after a call is never above
\* what was there plus what the call injected (mass leaves through the faces
\* held at the background level) and never below the background total; every
\* cell is >= the background floor.
C16_ScenarioMassBounded ==
    [][ gas_steps' = gas_steps + 1 =>
          /\ RLeq(TotalMass(old_matrix'), RAdd(TotalMass(old_matrix), InjectedTotal(gas_call')))
          /\ RLeq(TotalMass(InitialField(gas_cfg)), TotalMass(old_matrix'))
          /\ \A c \in Cells : RLeq(FloorMass, old_matrix'[c]) ]_vars

\* the scenario after its last call: mass has spread to every cell and part of
\* it has left the grid
C16_Witness ==
    /\ gas_steps = ScenarioSteps
    /\ gas_cfg.diffusion = RInt(1) /\ gas_cfg.loss_rate = RInt(0) /\ gas_cfg.dt = Rat(1, 2)
    /\ \A c \in Cells : RLess(FloorMass, old_matrix[c])
    /\ RLess(TotalMass(old_matrix), RAdd(TotalMass(InitialField(gas_cfg)), RInt(100)))
    /\ RLess(RAdd(TotalMass(InitialField(gas_cfg)), RInt(10)), TotalMass(old_matrix))

-----------------------------------------------------------------------------
(* Properties of the statistics aggregator *)

RoundedTimestamp(i) == RoundHalfEven(data_folder[i].timestamp, HOUR_SEC) * HOUR_SEC

\* the snapshots of a data key that the aggregator keeps: files of the folder
\* with that key, of the reference height, with a rounded timestamp of the day
SnapshotsOf(key) ==
    {i \in 1 .. Len(data_folder) :
        /\ data_folder[i].key = key
        /\ data_folder[i].parts = 4 => data_folder[i].height = GAS_HEIGHT
        /\ 0 <= RoundedTimestamp(i) /\ RoundedTimestamp(i) <= 24 * HOUR_SEC}

\* the snapshots of a key whose rounded timestamp lies in [t, t + window_size)
SnapshotsInWindow(key, t, window_size) ==
    {i \in SnapshotsOf(key) : t <= RoundedTimestamp(i) /\ RoundedTimestamp(i) < t + window_size}

RECURSIVE SumOfSnapshots(_, _)
SumOfSnapshots(I, c) ==
    IF I = {} THEN RInt(0)
    ELSE LET i == CHOOSE j \in I : TRUE
         IN  RAdd(data_folder[i].data[c], SumOfSnapshots(I \ {i}, c))

MeanOfSnapshots(I) == [c \in Cells2D |-> RDiv(SumOfSnapshots(I, c), RInt(Cardinality(I)))]

\* C5 as stated: every window average written for a start timestamp t is the
\* mean of all snapshots of the key whose rounded timestamp lies in
\* [t, t + window), also when several snapshots round to the same hour.
C5_MeanOfAllSnapshots ==
    stats_done =>
        \A key \in DOMAIN stats_out : \A name \in WindowNames :
            \A start_hour \in DOMAIN stats_out[key].moving[name] :
                stats_out[key].moving[name][start_hour] =
                    MeanOfSnapshots(SnapshotsInWindow(key, start_hour * HOUR_SEC,
                                                      WindowOf(name).window_size))

\* C6: no window average is written for a window that holds fewer than
\* min_points (1 / 8 / 24) snapshots.
C6_NoAverageBelowMinPoints ==
    stats_done =>
        \A key \in DOMAIN stats_out : \A name \in WindowNames :
            \A start_hour \in DOMAIN stats_out[key].moving[name] :
                Cardinality(SnapshotsInWindow(key, start_hour * HOUR_SEC,
                                              WindowOf(name).window_size))
                    >= WindowOf(name).min_points

\* a full day of hourly snapshots: the 24 h average is written once, the 8 h
\* average for some but not all of the hours that have a 1 h average
C6_Witness ==
    /\ stats_done
    /\ "data_co" \in DOMAIN stats_out
    /\ DOMAIN stats_out["data_co"].moving["24h"] # {}
    /\ DOMAIN stats_out["data_co"].moving["8h"] # {}
    /\ DOMAIN stats_out["data_co"].moving["8h"] # DOMAIN stats_out["data_co"].moving["1h"]
    /\ DOMAIN stats_out["data_co"].moving["24h"] # DOMAIN stats_out["data_co"].moving["8h"]

\* C7 as stated: for every observed timestamp t and every window, if at least
\* min_points snapshots lie in [t, t + window), a window average labelled
\* floor(t / 3600) is written.
C7_AverageWrittenWhenEnough ==
    stats_done =>
        \A key \in DOMAIN stats_out : \A name \in WindowNames : \A i \in SnapshotsOf(key) :
            Cardinality(SnapshotsInWindow(key, RoundedTimestamp(i), WindowOf(name).window_size))
                    >= WindowOf(name).min_points
                => (RoundedTimestamp(i) \div HOUR_SEC) \in DOMAIN stats_out[key].moving[name]

NearestHours(t) ==
    LET near == {t \div HOUR_SEC, t \div HOUR_SEC + 1}
    IN  {h \in near : \A g \in near : Abs(t - h * HOUR_SEC) <= Abs(t - g * HOUR_SEC)}

\* the snapshots of a key whose timestamp rounds into the day [0, 86400]
InDay(key) ==
    {i \in 1 .. Len(data_folder) :
        /\ data_folder[i].key = key
        /\ \A h \in NearestHours(data_folder[i].timestamp) : h <= 24}

\* the snapshots of a key whose timestamp rounds to after the day
AfterDay(key) ==
    {i \in 1 .. Len(data_folder) :
        /\ data_folder[i].key = key
        /\ \A h \in NearestHours(data_folder[i].timestamp) : h > 24}

\* C17: process_data_statistics rounds each timestamp to the nearest multiple of
\* 3600 before grouping; a snapshot whose rounded timestamp is outside
\* [0, 86400] is dropped, and every other snapshot is still grouped and
\* aggregated: the hours with a 1 h average are the nearest hours of the
\* snapshots in the day, and max and avg are taken over exactly those.
C17_RoundedAndOutOfDayDropped ==
    stats_done =>
        \A key \in {data_folder[i].key : i \in 1 .. Len(data_folder)} :
            /\ InDay(key) \cup AfterDay(key) = {i \in 1 .. Len(data_folder) : data_folder[i].key = key}
            /\ key \in DOMAIN stats_out <=> InDay(key) # {}
            /\ InDay(key) # {} =>
                  /\ \A h \in DOMAIN stats_out[key].moving["1h"] :
                        \E i \in InDay(key) : h \in NearestHours(data_folder[i].timestamp)
                  /\ \A i \in InDay(key) :
                        \E h \in NearestHours(data_folder[i].timestamp) :
                            h \in DOMAIN stats_out[key].moving["1h"]
                  /\ stats_out[key].avg = MeanOfSnapshots(InDay(key))
                  /\ \A c \in Cells2D :
                        /\ \A i \in InDay(key) : RLeq(data_folder[i].data[c], stats_out[key].max[c])
                        /\ \E i \in InDay(key) : data_folder[i].data[c] = stats_out[key].max[c]

\* a run with TIME_PER_SCREENSHOT = 7200: the snapshots after the day are
\* dropped, with them the largest value, and the first twelve are aggregated
C17_Witness ==
    /\ stats_done
    /\ time_per_screenshot = 7200
    /\ Cardinality(InDay("data_co")) = 12
    /\ Cardinality(AfterDay("data_co")) = 12
    /\ DOMAIN stats_out["data_co"].moving["1h"] = {2 * k : k \in 1 .. 12}
    /\ stats_out["data_co"].max[<<0, 0>>] = RInt(1)
    /\ data_folder[Len(data_folder) - 1].data[<<0, 0>>] = RInt(2)

\* the (key, rounded timestamp) pairs of the files of the folder with a name of
\* 3 or 4 parts, the reference height and a timestamp of the day
GroupableSnapshots ==
    { <<f.key, RoundHalfEven(f.timestamp, HOUR_SEC) * HOUR_SEC>> :
        f \in { g \in {data_folder[i] : i \in 1 .. Len(data_folder)} :
                  /\ g.parts \in {3, 4}
                  /\ g.parts = 4 => g.height = 1
                  /\ RoundHalfEven(g.timestamp, HOUR_SEC) * HOUR_SEC \in 0 .. 86400 } }

\* the (key, timestamp) pairs the aggregator has worked on: every grouped
\* snapshot gives a 1 h average labelled with its hour
GroupedSnapshots ==
    UNION { { <<k, h * HOUR_SEC>> : h \in DOMAIN stats_out[k].moving["1h"] } : k \in DOMAIN stats_out }

\* C26: the (key, timestamp) snapshots process_data_statistics groups do not
\* depend on the order the files are listed in: they are the snapshots of
\* all files with a name of 3 or 4 parts, whatever other files the folder
\* holds and wherever those come in the listing.
C26_GroupingOrderIndependent ==
    stats_done => GroupedSnapshots = GroupableSnapshots

-----------------------------------------------------------------------------
(* Properties of the AQI / AQIH converter *)

\* C3: the US AQI function returns index_high at the upper concentration bound
\* of every tier and index_low at the lower bound, for CO, NO2 and PM2.5.
C3_ExactAtTierBounds ==
    aqi_call.scale = "US" =>
        \A i \in 1 .. Len(breakpoints_US[aqi_call.pollutant]) :
            LET bp == breakpoints_US[aqi_call.pollutant][i]
            IN  /\ aqi_call.concentration = bp.hi => aqi_result = Returned(RInt(bp.ih))
                /\ aqi_call.concentration = bp.lo => aqi_result = Returned(RInt(bp.il))

\* CO at 4.4 ppm, the upper bound of the first tier: 50
C3_Witness ==
    /\ aqi_call = [scale |-> "US", pollutant |-> "CO", concentration |-> D1(44)]
    /\ aqi_result = Returned(RInt(50))

\* C13: the US AQI function returns 500 for every concentration above the last
\* tier's upper bound, 0 for every negative concentration, and a value in
\* [0, 500] for every input.
C13_SaturatesAt500 ==
    aqi_call.scale = "US" =>
        LET tiers == breakpoints_US[aqi_call.pollutant]
        IN  /\ ~aqi_result.error
            /\ RLess(tiers[Len(tiers)].hi, aqi_call.concentration) => aqi_result.value = RInt(500)
            /\ RLess(aqi_call.concentration, RInt(0)) => aqi_result.value = RInt(0)
            /\ RLeq(RInt(0), aqi_result.value) /\ RLeq(aqi_result.value, RInt(500))

\* PM2.5 just above 500.4, the upper bound of its last tier: 500
C13_Witness ==
    /\ aqi_call = [scale |-> "US", pollutant |-> "PM2.5",
                   concentration |-> RAdd(D1(5004), Rat(1, 20))]
    /\ aqi_result = Returned(RInt(500))

\* C4 as stated: AQIH returns 9 at the lower bound of the last tier (NO2 600)
\* and 10 for every concentration above it (NO2 700, PM2.5 above 142).
C4_SaturatesAtTen ==
    (aqi_call.scale = "AQIH" /\ aqi_call.pollutant \in DOMAIN breakpoints_AQIH) =>
        LET tiers == breakpoints_AQIH[aqi_call.pollutant]
            last == tiers[Len(tiers)]
        IN  /\ aqi_call.concentration = last.lo => aqi_result = Returned(RInt(9))
            /\ RLess(last.lo, aqi_call.concentration) => aqi_result = Returned(RInt(10))

\* the window whose averages score a pollutant: 8 h for CO, 1 h for NOx, 24 h
\* for PMx
Designated(pollutant) ==
    IF pollutant = "co" THEN "8h" ELSE IF pollutant = "nox" THEN "1h" ELSE "24h"

\* the averages of a pollutant in the folder that belong to its window
DesignatedFiles(pollutant) ==
    {f \in DOMAIN avg_data_folder : f[1] = pollutant /\ f[2] = Designated(pollutant)}

\* the folder without the averages of every other window
DesignatedOnly ==
    [f \in UNION {DesignatedFiles(p) : p \in {"co", "nox", "pmx"}} |-> avg_data_folder[f]]

\* C18: process_gas_to_aqi scores CO only from 8-hour averages, NOx only from
\* 1-hour averages and PMx only from 24-hour averages, for AQI and AQIH:
\* a pollutant has a grid exactly when it has an average of its window, every
\* cell of the grid is the score of one of those averages, and the grids are
\* what they would be without the averages of the other windows.
C18_OnlyDesignatedWindow ==
    aqi_done =>
        /\ final_results = process_gas_to_aqi(DesignatedOnly).saved
        /\ \A p \in {"co", "nox", "pmx"} :
              /\ (p \o "_max_aqi") \in DOMAIN final_results <=> DesignatedFiles(p) # {}
              /\ (p \o "_max_aqih") \in DOMAIN final_results <=>
                    (p # "co" /\ DesignatedFiles(p) # {})
              /\ (p \o "_max_aqi") \in DOMAIN final_results =>
                    \A c \in Cells2D : \E f \in DesignatedFiles(p) :
                        final_results[p \o "_max_aqi"][c] = score_US(avg_data_folder[f], p)[c].value
              /\ (p \o "_max_aqih") \in DOMAIN final_results =>
                    \A c \in Cells2D : \E f \in DesignatedFiles(p) :
                        final_results[p \o "_max_aqih"][c] = score_AQIH(avg_data_folder[f], p)[c].value

\* a folder with an 8 h and a different 1 h average of CO and an 8 h average of
\* NOx: only the CO grid is written, from the 8 h average alone
C18_Witness ==
    /\ aqi_done
    /\ {<<"co", "8h", 0>>, <<"co", "1h", 0>>, <<"nox", "8h", 0>>} \subseteq DOMAIN avg_data_folder
    /\ avg_data_folder[<<"co", "8h", 0>>] # avg_data_folder[<<"co", "1h", 0>>]
    /\ DOMAIN final_results = {"co_max_aqi", "overall_max_aqi"}
    /\ \A c \in Cells2D :
          final_results["co_max_aqi"][c] = score_US(avg_data_folder[<<"co", "8h", 0>>], "co")[c].value

\* the per-pollutant grids one pass saved
SavedGrids(suffix) == {p \o suffix : p \in {"co", "nox", "pmx"}} \cap DOMAIN final_results

\* v is the largest of the values vals
LargestIn(v, vals) == v \in vals /\ \A w \in vals : RLeq(w, v)

\* C19: every per-pollutant index grid is, cell by cell, the largest score over
\* all window averages of that pollutant; the overall grid of a pass is written
\* when a per-pollutant grid is, and is, cell by cell, the largest of the
\* per-pollutant grids of the pass (CO, NOx, PMx for AQI; NOx, PMx for AQIH).
C19_CellwiseLargest ==
    aqi_done =>
        /\ \A p \in {"co", "nox", "pmx"} : \A c \in Cells2D :
              /\ (p \o "_max_aqi") \in DOMAIN final_results =>
                    LargestIn(final_results[p \o "_max_aqi"][c],
                              {score_US(avg_data_folder[f], p)[c].value : f \in DesignatedFiles(p)})
              /\ (p \o "_max_aqih") \in DOMAIN final_results =>
                    LargestIn(final_results[p \o "_max_aqih"][c],
                              {score_AQIH(avg_data_folder[f], p)[c].value : f \in DesignatedFiles(p)})
        /\ \A suffix \in {"_max_aqi", "_max_aqih"} :
              /\ ("overall" \o suffix) \in DOMAIN final_results <=> SavedGrids(suffix) # {}
              /\ SavedGrids(suffix) # {} =>
                    \A c \in Cells2D :
                        LargestIn(final_results["overall" \o suffix][c],
                                  {final_results[n][c] : n \in SavedGrids(suffix)})
        /\ "co_max_aqih" \notin DOMAIN final_results

\* two 1 h averages of NOx, each higher in other cells, and an 8 h average of
\* CO: the NOx grid is the score of neither average alone, and the overall AQI
\* grid is above the CO grid in some cell
C19_Witness ==
    /\ aqi_done
    /\ DOMAIN avg_data_folder = {<<"nox", "1h", 0>>, <<"nox", "1h", 1>>, <<"co", "8h", 0>>}
    /\ \A f \in DesignatedFiles("nox") : \E c \in Cells2D :
          RLess(score_US(avg_data_folder[f], "nox")[c].value, final_results["nox_max_aqi"][c])
    /\ \A f \in DesignatedFiles("nox") : \E c \in Cells2D :
          RLess(score_AQIH(avg_data_folder[f], "nox")[c].value, final_results["nox_max_aqih"][c])
    /\ \E c \in Cells2D :
          RLess(final_results["co_max_aqi"][c], final_results["overall_max_aqi"][c])
    /\ final_results["overall_max_aqih"] = final_results["nox_max_aqih"]

\* C20: calculate_aqi_for_pollutant_AQIH called with 'CO' raises before any
\* score is computed, whatever the concentration, and process_gas_to_aqi makes
\* no AQIH call for CO: neither for the pollutant co nor with the type 'CO'.
C20_CORejectedAndNeverScored ==
    /\ (aqi_call.scale = "AQIH" /\ aqi_call.pollutant = "CO") => aqi_result = AssertionError
    /\ \A call \in aqih_calls : call[1] # "co" /\ call[2] # "CO"
    /\ aqi_done =>
          aqih_calls = {<<p, pollutant_type_AQIH(p)>> : p \in {q \in {"nox", "pmx"} : DesignatedFiles(q) # {}}}

\* a direct call with 'CO' and a negative concentration, for which every other
\* pollutant gets the lowest index: it raises
C20_Witness ==
    /\ aqi_call.scale = "AQIH"
    /\ aqi_call.pollutant = "CO"
    /\ RLess(aqi_call.concentration, RInt(0))
    /\ aqi_result.error
    /\ calculate_aqi_for_pollutant_AQIH(aqi_call.concentration, "NO2") = Returned(RInt(1))

\* C21: calculate_aqi_for_pollutant_AQIH returns 1 for every negative
\* concentration, and for every concentration of NO2 or PM2.5 its result lies
\* in [1, 10].
C21_AQIHWithinOneAndTen ==
    (aqi_call.scale = "AQIH" /\ aqi_call.pollutant \in {"NO2", "PM2.5"}) =>
        /\ ~aqi_result.error
        /\ RLess(aqi_call.concentration, RInt(0)) => aqi_result.value = RInt(1)
        /\ RLeq(RInt(1), aqi_result.value) /\ RLeq(aqi_result.value, RInt(10))

\* PM2.5 at a concentration just below 0: the lowest index
C21_Witness ==
    /\ aqi_call.scale = "AQIH"
    /\ aqi_call.pollutant = "PM2.5"
    /\ aqi_call.concentration = Rat(-1, 20)
    /\ aqi_result = Returned(RInt(1))

\* C25: calculate_aqi_for_pollutant_US_AQI is non-decreasing in the
\* concentration over all concentrations >= 0: of two successive calls for the
\* same pollutant, the one with the larger concentration does not return the
\* smaller index, also when a concentration lies between the upper bound of
\* one tier and the lower bound of the next.
C25_USNonDecreasing ==
    [][ ( /\ aqi_call.scale = "US" /\ aqi_call'.scale = "US"
          /\ aqi_call.pollutant = aqi_call'.pollutant
          /\ RLeq(RInt(0), aqi_call.concentration)
          /\ RLeq(aqi_call.concentration, aqi_call'.concentration) )
        => RLeq(aqi_result.value, aqi_result'.value) ]_vars

-----------------------------------------------------------------------------
(* Properties of the driver *)

\* an element of a triple that no other element exceeds
LargestOf(t) == CHOOSE v \in {t[1], t[2], t[3]} : \A w \in {t[1], t[2], t[3]} : RLeq(w, v)

\* safety_factor * 2 / (loss_rate + 4 * (D/dx^2 + D/dy^2 + D/dz^2)) with the
\* largest diffusion coefficient and the largest loss rate, safety_factor 0.8
StabilityBound ==
    LET D == LargestOf(driver_cfg.coefficients.diffusion)
        L == LargestOf(driver_cfg.coefficients.loss_rate)
        dx2 == RInt(driver_cfg.cell_len_xy[1] * driver_cfg.cell_len_xy[1])
        dy2 == RInt(driver_cfg.cell_len_xy[2] * driver_cfg.cell_len_xy[2])
        dz2 == RInt(CELL_HEIGHT_Z * CELL_HEIGHT_Z)
        rate == RAdd(L, RMul(RInt(4), RAdd(RAdd(RDiv(D, dx2), RDiv(D, dy2)), RDiv(D, dz2))))
    IN  RDiv(RMul(Rat(8, 10), RInt(2)), rate)

\* C14: the driver's timestep is dt = 1/n for the smallest positive integer n
\* with 1/n <= safety_factor * 2 / (loss_rate + 4*(D/dx^2 + D/dy^2 + D/dz^2)),
\* from the largest diffusion coefficient and the largest loss rate of the three
\* pollutants, and dt is never above 1 second.
C14_DtIsLargestStableUnitFraction ==
    pc # "setup" =>
        /\ driver_dt[1] = 1
        /\ driver_dt[2] >= 1
        /\ RLeq(driver_dt, StabilityBound)
        /\ driver_dt[2] > 1 => RLess(StabilityBound, Rat(1, driver_dt[2] - 1))
        /\ RLeq(driver_dt, RInt(1))

\* the coefficients of run_sim.py with cells of 11 m x 11 m x 2 m: dt = 1/10
C14_Witness ==
    /\ pc = "loop"
    /\ driver_cfg.cell_len_xy = <<11, 11>>
    /\ driver_cfg.coefficients.diffusion = <<RInt(5), RInt(5), RInt(15)>>
    /\ driver_cfg.coefficients.loss_rate = <<RInt(0), RInt(0), Rat(1, 1000)>>
    /\ driver_dt = Rat(1, 10)

\* floor of a non-negative rational
Floor(r) == r[1] \div r[2]

\* C15: with simulated time starting at 0 and advancing by dt = 1/n per tick, no
\* snapshot boundary is stepped over: snapshots are written on exactly the ticks
\* with curr_time = k * TIME_PER_SCREENSHOT, k = 1 .. SIM_TIME / TIME_PER_SCREENSHOT,
\* once per k, and the noise update fires on exactly the ticks whose curr_time is
\* a whole second >= 1.
C15_TriggersOnBoundaries ==
    pc # "setup" =>
        /\ screenshots = [k \in 1 .. Floor(curr_time) \div time_per_screenshot |->
                             RInt(k * time_per_screenshot)]
        /\ noise_updates = [k \in 1 .. Floor(curr_time) |-> RInt(k)]
        /\ pc = "ended" => /\ curr_time = RInt(SIM_TIME)
                           /\ Len(screenshots) = SIM_TIME \div time_per_screenshot

\* a finished run with ten ticks per second: 24 snapshots, SIM_TIME noise updates
C15_Witness ==
    /\ pc = "ended"
    /\ driver_dt = Rat(1, 10)
    /\ Len(screenshots) = ScreenshotsPerRun
    /\ screenshots[ScreenshotsPerRun] = RInt(SIM_TIME)
    /\ Len(noise_updates) = SIM_TIME

\* C29: at every tick and in every cell the four noise exposure counters are
\* nested, exposure_40dB >= exposure_50dB >= exposure_60dB >= exposure_70dB,
\* none of them exceeds the number of per-second noise updates done so far,
\* none of them ever decreases, and a tick that also computes the noise field
\* of a snapshot counts the cell once, for the per-second field.
C29_ExposureCountersNested ==
    /\ [](\A c \in Cells2D :
            /\ noise_exposure[NOISE_THRESHOLD_LOW][c] <= Len(noise_updates)
            /\ noise_exposure[NOISE_THRESHOLD_LOW][c] >= noise_exposure[NOISE_THRESHOLD_MID][c]
            /\ noise_exposure[NOISE_THRESHOLD_MID][c] >= noise_exposure[NOISE_THRESHOLD_HIGH][c]
            /\ noise_exposure[NOISE_THRESHOLD_HIGH][c] >= noise_exposure[NOISE_THERESHOLD_VERY_HIGH][c]
            /\ noise_exposure[NOISE_THERESHOLD_VERY_HIGH][c] >= 0)
    /\ [][ \A t \in NoiseThresholds : \A c \in Cells2D :
             /\ noise_exposure'[t][c] >= noise_exposure[t][c]
             /\ Len(screenshots') > Len(screenshots) =>
                   noise_exposure'[t][c] - noise_exposure[t][c] =
                       IF reaches(linear_matrix'[c], t) THEN 1 ELSE 0 ]_vars

\* after a snapshot, a cell that was at or above 70 dB in some second, at or
\* above 40 dB but below 60 dB in another, and below 40 dB in a third
C29_Witness ==
    /\ Len(screenshots) >= 1
    /\ \E c \in Cells2D :
          /\ noise_exposure[NOISE_THERESHOLD_VERY_HIGH][c] > 0
          /\ noise_exposure[NOISE_THRESHOLD_LOW][c] > noise_exposure[NOISE_THRESHOLD_HIGH][c]
          /\ noise_exposure[NOISE_THRESHOLD_LOW][c] < Len(noise_updates)

\* the calls a tick makes after the solver calls
AfterSolver == SubSeq(tick_calls, 5, Len(tick_calls))

\* C24: in every tick the traffic step comes first, then the three solver
\* calls for CO, NOx and PMx, then the noise update if it is due, then the
\* snapshot if it is due; no tick starts once the simulated time exceeds
\* SIM_TIME and the loop does not end before; the Aggregator runs only after
\* the loop has ended and the last snapshot is written, the Converter only
\* after the Aggregator has finished.
C24_StagesInOrder ==
    /\ [](tick_calls # << >> =>
            /\ SubSeq(tick_calls, 1, 4) = <<"simulationStep", "process_gas_step co",
                                            "process_gas_step nox", "process_gas_step pmx">>
            /\ AfterSolver \in { << >>, <<"process_noise">>, <<"process_noise", "save_all_data">>,
                                 <<"process_noise", "process_noise", "save_all_data">> })
    /\ [](pc \in {"ended", "aggregated", "done"} => RLess(RInt(SIM_TIME), sim_time))
    /\ [][ curr_time' # curr_time => RLeq(sim_time, RInt(SIM_TIME)) ]_vars
    /\ [](stats_done =>
            /\ pc \in {"aggregated", "done"}
            /\ Len(screenshots) = ScreenshotsPerRun
            /\ Len(data_folder) = 4 * ScreenshotsPerRun
            /\ data_folder[Len(data_folder)].timestamp = SIM_TIME)
    /\ [][ stats_done' # stats_done => pc = "ended" /\ data_folder' = data_folder ]_vars
    /\ [](aqi_done => stats_done /\ pc = "done")
    /\ [][ aqi_done' # aqi_done => stats_done /\ stats_out' = stats_out ]_vars

\* a finished run: the snapshot tick made both process_noise calls, the
\* aggregator and the converter have run and an index grid is saved
C24_Witness ==
    /\ pc = "done"
    /\ aqi_done
    /\ tick_calls = <<"simulationStep", "process_gas_step co", "process_gas_step nox",
                      "process_gas_step pmx", "process_noise", "process_noise", "save_all_data">>
    /\ "nox_max_aqi" \in DOMAIN final_results

\* the timestamps in the names of the snapshots of a pollutant in the data folder
SnapshotTimes(pollutant) ==
    { data_folder[i].timestamp :
        i \in {j \in 1 .. Len(data_folder) : data_folder[j].key = "data_" \o pollutant} }

\* the number of snapshots of a pollutant in the data folder
SnapshotCount(pollutant) ==
    Cardinality({j \in 1 .. Len(data_folder) : data_folder[j].key = "data_" \o pollutant})

\* C30: a complete run of the default configuration (TIME_PER_SCREENSHOT = 3600,
\* SIM_TIME = 86400, GAS_HEIGHT = 1) writes exactly 24 gas snapshots per
\* pollutant, at 3600, 7200, ..., 86400; the Aggregator retains all 24, so
\* each pollutant gets at least one 1 h, one 8 h and one 24 h window average,
\* and the Converter produces an AQI grid for each of CO, NOx and PMx.
C30_DefaultRunYieldsAllGrids ==
    \A p \in {"co", "nox", "pmx"} :
        /\ pc # "loop" =>
              /\ SnapshotCount(p) = 24
              /\ SnapshotTimes(p) = {3600 * k : k \in 1 .. 24}
        /\ stats_done =>
              /\ DOMAIN stats_out["data_" \o p].moving["1h"] = 1 .. 24
              /\ DOMAIN stats_out["data_" \o p].moving["8h"] # {}
              /\ DOMAIN stats_out["data_" \o p].moving["24h"] # {}
              /\ \E f \in DOMAIN avg_data_folder : f[1] = p /\ f[2] = "1h"
              /\ \E f \in DOMAIN avg_data_folder : f[1] = p /\ f[2] = "8h"
              /\ \E f \in DOMAIN avg_data_folder : f[1] = p /\ f[2] = "24h"
        /\ aqi_done => (p \o "_max_aqi") \in DOMAIN final_results

\* the whole pipeline has run on a day in which the concentrations rose above
\* the background: the CO grid shows a higher index in the cell at (0, 0)
C30_Witness ==
    /\ pc = "done"
    /\ aqi_done
    /\ Len(data_folder) = 96
    /\ DOMAIN stats_out["data_pmx"].moving["24h"] = {1}
    /\ RLess(final_results["co_max_aqi"][<<1, 1>>], final_results["co_max_aqi"][<<0, 0>>])

====
